---- MODULE Spec2Model ----
(***************************************************************************)
(* The plugin runtime of kibot's python-plugin-system: the IPC client      *)
(* (ipc_client.py) with its intake loop, correlation registry and request  *)
(* router, and the PluginBase dispatch layer (plugin_base.py) with its     *)
(* instrumentation wrappers.                                               *)
(*                                                                         *)
(* One step of the model is one uninterrupted run of an asyncio task: from *)
(* the point where the event loop resumes it to its next suspension.       *)
(***************************************************************************)
EXTENDS Integers, Sequences, FiniteSets, TLC

\* ------------------------------------------------------------- bounds
\* send_request calls made during one run (each takes a fresh id)
MaxCalls == 2
\* request messages the host sends (each becomes one _handle_request task)
MaxReqs == 2
\* largest elapsed time (ms) a handler invocation is measured to take
MaxDuration == 0
\* handlers the plugin registers for one event type
MaxHandlers == 2
\* performance samples recorded in one run of the recorder
MaxSamples == 22
\* error records written in one run of the recorder
MaxErrors == 102
\* recorded samples (or errors) of one run that differ from the steady one
MaxVaried == 1
\* tasks that send messages at the same time
MaxSenders == 2
\* messages one of them sends
MaxSends == 2
\* diagnostics snapshots taken in one run
MaxSnapshots == 1
\* errors recorded, and samples recorded, in a run that takes snapshots
\* event messages the host sends in a run
MaxEvents == 2
MaxLogged == 11
MaxMeasured == 2

\* payloads a response can carry, and error texts
Data == {"d1", "d2"}
Errors == {"e1"}
\* command names the host dispatches and the plugin may register
Commands == {"cx"}
\* event types the host dispatches and the plugin may register handlers for
EventTypes == {"message"}

NoMsg == [type |-> "none", id |-> 0, action |-> "", data |-> "", error |-> ""]
NoOutcome == [kind |-> "none", val |-> ""]
NoFuture == [st |-> "none", val |-> ""]
NoCall == [st |-> "unused", action |-> "", owner |-> 0, ser |-> TRUE, outcome |-> NoOutcome]

CallIds == 1..MaxCalls
TaskIds == 1..MaxReqs

VARIABLES
    running,            \* IPCClient.running
    reader_task,        \* position of the _read_messages task
    main_task,          \* position of run_plugin's main coroutine
    pending_requests,   \* IPCClient.pending_requests: the ids with an entry
    futures,            \* the Future created for each send_request call
    calls,              \* the send_request calls, by message id
    stdout,             \* the lines written to stdout, in order
    tasks,              \* the _handle_request tasks, one per host request
    settledBy,          \* per future: the response message that settled it
    command_handlers,   \* PluginBase._command_handlers: registered names
    event_handlers,     \* PluginBase._event_handlers: per type, how many
                        \* handlers are in its list (handler k = k-th added)
    scheduled_tasks,    \* PluginBase._scheduled_tasks: per name, whether
                        \* task_info is stored and whether it has a handler
    perf_history,       \* history: every sample recorded, per kind and name
    error_history,      \* history: every error recorded, in order
    statistics,         \* PluginBase.statistics
    performance,        \* PluginBase.performance
    errors,             \* PluginBase.errors
    concurrent_operations,      \* PluginBase._concurrent_operations
    max_concurrent_operations,  \* PluginBase._max_concurrent_operations
    peak_operations,    \* history: the most invocations in progress at once
    first_line,         \* the first line of stdin, which run_plugin reads
    snapshots,          \* the values get_detailed_info has returned
    senders,            \* the tasks that are sending, and where in _send
    stdout_buffer,      \* sys.stdout's buffer: written, not yet flushed
    stdout_ops,         \* history: the operations done on sys.stdout
    running_at_stop,    \* history: the handlers suspended when stop() ran
    intake_log,         \* history: the last line the intake loop skipped or
                        \* logged, and whether a line was dispatched since
    ipc_event_handlers, \* IPCClient.event_handlers: the actions with a
                        \* 'request:' key, and the handler under 'event:notify'
    event_log           \* history: the handlers given to on_event, and the
                        \* _handle_event tasks with the handlers they called

pbVars == <<command_handlers, event_handlers, scheduled_tasks, perf_history,
            error_history, statistics, performance, errors,
            concurrent_operations, max_concurrent_operations,
            peak_operations>>
ioVars == <<first_line, snapshots, senders, stdout_buffer, stdout_ops>>
auxVars == <<ioVars, ipc_event_handlers, event_log>>
stopVars == <<auxVars, running_at_stop>>
otherVars == <<stopVars, intake_log>>
vars == <<running, reader_task, main_task, pending_requests, futures, calls,
          stdout, tasks, settledBy, command_handlers, event_handlers,
          scheduled_tasks, perf_history, error_history,
          statistics, performance, errors, concurrent_operations,
          max_concurrent_operations, peak_operations, first_line, snapshots,
          senders,
          stdout_buffer, stdout_ops, running_at_stop, intake_log,
          ipc_event_handlers, event_log>>

\* ------------------------------------------------------ program constants
\* plugin_base.py:198  "if len(self.errors) > 100"
ErrorCap == 100
\* plugin_base.py:253  "if len(perf['last_executions']) > 20"
WindowCap == 20
\* plugin_base.py:226  min_duration starts as float('inf'); -1 stands for it
Infinity == -1

\* plugin_base.py:625  "self.errors[-10:]"
SnapshotErrors == 10

Durations == 0..MaxDuration

\* ------------------------------------------------------------- messages
Msg(type, id, action, data, error) ==
    [type |-> type, id |-> id, action |-> action, data |-> data, error |-> error]

\* ipc_client.py send_request: the request message of call c
RequestMsg(c, action) == Msg("request", c, action, "", "")
\* ... with the data it carries, when the model looks at them
RequestMsgData(c, action, data) == Msg("request", c, action, data, "")
\* ipc_client.py send_response_sync / send_error_sync
ResponseMsg(id, data) == Msg("response", id, "", data, "")
ErrorMsg(id, error) == Msg("response", id, "", "", error)

\* the mutable state of IPCClient, as one value
IPC == [calls |-> calls, futures |-> futures, pending |-> pending_requests,
        out |-> stdout]

SetIPC(ipc) ==
    /\ calls' = ipc.calls
    /\ futures' = ipc.futures
    /\ pending_requests' = ipc.pending
    /\ stdout' = ipc.out

\* IPCClient._send: one whole line, or nothing when json.dumps raises
Send(ipc, message, serializable) ==
    IF serializable THEN [ipc EXCEPT !.out = Append(@, message)] ELSE ipc

\* IPCClient._generate_id: a fresh id (uuid4), here the first unused slot
FreeIds(ipc) == {c \in CallIds : ipc.calls[c].st = "unused"}
GenerateId(ipc) == CHOOSE c \in FreeIds(ipc) : \A d \in FreeIds(ipc) : c <= d

\* send_request, lines 177-196: register the future, write the request and
\* suspend in wait_for
StartCallData(ipc, c, action, data, owner, serializable) ==
    Send([ipc EXCEPT
            !.calls[c] = [st |-> "awaiting", action |-> action,
                          owner |-> owner, ser |-> serializable,
                          outcome |-> NoOutcome],
            !.futures[c] = [st |-> "pending", val |-> ""],
            !.pending = @ \cup {c}],
         RequestMsgData(c, action, data), serializable)

StartCall(ipc, c, action, owner, serializable) ==
    StartCallData(ipc, c, action, "", owner, serializable)

\* send_request, lines 196-200: what the resumed call returns or raises
Outcome(ipc, c) ==
    LET f == ipc.futures[c]
    IN CASE f.st = "result" -> [kind |-> "ok", val |-> f.val]
         [] f.st = "exception" -> [kind |-> "error", val |-> f.val]
         [] OTHER -> [kind |-> "timeout", val |-> ipc.calls[c].action]

\* a timeout branch that leaves the entry behind (C2 must notice it)
TimeoutCleanupNone(pending, c) == pending

\* send_request, line 199: the timeout branch drops the call's own entry
TimeoutCleanup(pending, c) == pending \ {c}

\* send_request resumed after wait_for: the call ends with its outcome
FinishCall(ipc, c) ==
    [ipc EXCEPT
        !.calls[c].st = "done",
        !.calls[c].outcome = Outcome(ipc, c),
        !.pending = IF ipc.futures[c].st = "cancelled"
                    THEN TimeoutCleanup(@, c) ELSE @]

\* the awaited future of call c is done: the event loop can resume the call
Resumable(c) ==
    calls[c].st = "awaiting" /\ futures[c].st \in {"result", "exception", "cancelled"}

\* ------------------------------------------------- PluginBase bookkeeping
\* the mutable runtime state of PluginBase, as one value
PB == [statistics |-> statistics, performance |-> performance,
       errors |-> errors, conc |-> concurrent_operations,
       maxc |-> max_concurrent_operations, peak |-> peak_operations]

SetPB(pb) ==
    /\ statistics' = pb.statistics
    /\ performance' = pb.performance
    /\ errors' = pb.errors
    /\ concurrent_operations' = pb.conc
    /\ max_concurrent_operations' = pb.maxc
    /\ peak_operations' = pb.peak

\* an error log that drops the newest record at the cap (C15 must notice it)
EvictErrorNewest(log) ==
    IF Len(log) > ErrorCap THEN SubSeq(log, 1, ErrorCap) ELSE log

\* __record_error_internal, lines 198-199: beyond the cap the oldest goes
EvictError(log) == IF Len(log) > ErrorCap THEN Tail(log) ELSE log

\* PluginBase.__record_error_internal
record_error_internal(pb, error_type, source, message) ==
    LET appended == Append(pb.errors,
                           [type |-> error_type, source |-> source,
                            message |-> message])
    IN [pb EXCEPT !.errors = EvictError(appended),
                  !.statistics.errors_occurred = @ + 1]

\* ---- the float arithmetic of the performance record
\* Durations and their sums are Python floats (binary64, round to nearest,
\* ties to even).  The model keeps the rounding rule and shortens the
\* significand to Precision bits; a float is m * 2^e.
Precision == 3

RECURSIVE Pow2(_)
Pow2(k) == IF k = 0 THEN 1 ELSE 2 * Pow2(k - 1)

\* num/den > 0 brought into [2^(Precision-1), 2^Precision) by powers of two
RECURSIVE Normalize(_, _, _)
Normalize(num, den, e) ==
    IF num >= den * Pow2(Precision) THEN Normalize(num, den * 2, e + 1)
    ELSE IF num < den * Pow2(Precision - 1) THEN Normalize(num * 2, den, e - 1)
    ELSE [num |-> num, den |-> den, e |-> e]

\* num/den rounded to the nearest integer, ties to even
RoundHalfEven(num, den) ==
    LET q == num \div den
        r == num % den
    IN IF 2 * r > den THEN q + 1
       ELSE IF 2 * r = den THEN q + (q % 2)
       ELSE q

\* the float nearest to num/den (num >= 0, den > 0)
Float(num, den) ==
    IF num = 0 THEN [m |-> 0, e |-> 0]
    ELSE LET n == Normalize(num, den, 0)
             m == RoundHalfEven(n.num, n.den)
         IN IF m = Pow2(Precision)
            THEN [m |-> Pow2(Precision - 1), e |-> n.e + 1]
            ELSE [m |-> m, e |-> n.e]

\* float comparison a <= b
FloatLeq(a, b) ==
    LET low == IF a.e < b.e THEN a.e ELSE b.e
    IN a.m * Pow2(a.e - low) <= b.m * Pow2(b.e - low)

\* the float of an integer that needs no rounding, and back: the value of a
\* float that is a whole number
FloatOf(k) == [m |-> k, e |-> 0]
IntOf(f) == IF f.e >= 0 THEN f.m * Pow2(f.e) ELSE f.m \div Pow2(0 - f.e)

\* line 240, "perf['total_duration'] += duration": a rounded float sum (a
\* rounded sum of whole numbers is a whole number)
FloatAdd(a, b) == IntOf(Float(a + b, 1))

\* line 243, "total_duration / total_executions": a rounded float quotient
FloatDiv(a, n) == Float(a, n)

MinDuration(a, d) == IF a = Infinity \/ d < a THEN d ELSE a
MaxOf(a, d) == IF d > a THEN d ELSE a

NewPerf == [total_executions |-> 0, successful_executions |-> 0,
            failed_executions |-> 0, total_duration |-> 0,
            min_duration |-> Infinity, max_duration |-> 0,
            avg_duration |-> FloatOf(0),
            last_executions |-> <<>>]

\* a tally that misses failures (C13 must notice it)
CountFailedNever(failed, success) == failed

\* lines 235-238: the failure tally
CountFailed(failed, success) == failed + (IF success THEN 0 ELSE 1)

\* a window that drops the newest sample at the cap (C14 must notice it)
EvictSampleNewest(window) ==
    IF Len(window) > WindowCap THEN SubSeq(window, 1, WindowCap) ELSE window

\* lines 253-254: beyond the cap the oldest sample goes
EvictSample(window) ==
    IF Len(window) > WindowCap THEN Tail(window) ELSE window

\* lines 213-217: the map a perf_type selects; an unknown one selects the
\* command map
PerfKind(perf_type) ==
    IF perf_type \in {"command", "event", "task"} THEN perf_type ELSE "command"

\* PluginBase.__record_performance_internal
record_performance_internal(pb, perf_type, name, duration, success) ==
    IF duration < 0 THEN pb ELSE
    LET kind == PerfKind(perf_type)
        perf_map == pb.performance[kind]
        old == IF name \in DOMAIN perf_map THEN perf_map[name] ELSE NewPerf
        total == old.total_executions + 1
        dur == FloatAdd(old.total_duration, duration)
        new == [total_executions |-> total,
                successful_executions |->
                    old.successful_executions + (IF success THEN 1 ELSE 0),
                failed_executions |->
                    CountFailed(old.failed_executions, success),
                total_duration |-> dur,
                min_duration |-> MinDuration(old.min_duration, duration),
                max_duration |-> MaxOf(old.max_duration, duration),
                avg_duration |-> FloatDiv(dur, total),
                last_executions |->
                    EvictSample(Append(old.last_executions,
                                       [duration |-> duration,
                                        success |-> success]))]
    IN [pb EXCEPT !.performance[kind] =
            [n \in DOMAIN perf_map \cup {name} |->
                IF n = name THEN new ELSE perf_map[n]]]

\* a mark that follows the counter instead of keeping its maximum (C34 must
\* notice it)
high_water_current(mark, n) == n

\* lines 340-341 and 401-402: the high-water mark of the counter
high_water(mark, n) == IF n > mark THEN n ELSE mark

\* history: the largest of some numbers
Largest(set) == CHOOSE m \in set : \A x \in set : m >= x

\* register_command.wrapped_handler, lines 397-402: before the handler runs
command_wrapper_enter(pb) ==
    LET n == pb.conc + 1
    IN [pb EXCEPT !.statistics.command_executions = @ + 1,
                  !.conc = n,
                  !.maxc = high_water(pb.maxc, n),
                  !.peak = Largest({pb.peak, n})]

\* register_command.wrapped_handler, lines 410-415: the handler raised
command_wrapper_failed(pb, command, message) ==
    record_error_internal(pb, "command", command, message)

\* a wrapper without finally, restoring the counter on success only (C10
\* must notice it)
command_wrapper_exit_on_success(pb, command, duration, success) ==
    record_performance_internal(
        IF success THEN [pb EXCEPT !.conc = @ - 1] ELSE pb,
        "command", command, duration, success)

\* register_command.wrapped_handler, lines 427-432: the finally block
command_wrapper_exit(pb, command, duration, success) ==
    record_performance_internal([pb EXCEPT !.conc = @ - 1],
                                "command", command, duration, success)

\* a wrapper that leaves events_handled alone (C39 must notice it)
event_wrapper_enter_uncounted(pb) ==
    LET n == pb.conc + 1
    IN [pb EXCEPT !.conc = n,
                  !.maxc = high_water(pb.maxc, n),
                  !.peak = Largest({pb.peak, n})]

\* register_event.wrapped_handler, lines 336-341: before the handler runs
event_wrapper_enter(pb) ==
    LET n == pb.conc + 1
    IN [pb EXCEPT !.statistics.events_handled = @ + 1,
                  !.conc = n,
                  !.maxc = high_water(pb.maxc, n),
                  !.peak = Largest({pb.peak, n})]

\* register_event.wrapped_handler, lines 349-357: the handler raised
event_wrapper_failed(pb, event_type, message) ==
    record_error_internal(pb, "event", event_type, message)

\* register_event.wrapped_handler, lines 358-363: the finally block
event_wrapper_exit(pb, event_type, duration, success) ==
    record_performance_internal([pb EXCEPT !.conc = @ - 1],
                                "event", event_type, duration, success)

\* schedule.wrapped_handler, lines 519-523: before the handler runs
task_wrapper_enter(pb) ==
    [pb EXCEPT !.statistics.tasks_executed = @ + 1]

\* a task wrapper that leaves the recording to nobody (C12 must notice it)
task_wrapper_failed_silent(pb, name, message) == pb

\* schedule.wrapped_handler, lines 527-529: the handler raised
task_wrapper_failed(pb, name, message) ==
    record_error_internal(pb, "task", name, message)

\* a dispatch_task that lets the handler's exception through (C18 must
\* notice it)
dispatch_task_propagates(failed) == IF failed THEN "raised" ELSE "returned"

\* dispatch_task, lines 588-591: the handler's exception is caught and logged
dispatch_task_outcome(failed) == "returned"

\* a dispatch_command that counts before the lookup (C9 must notice it)
dispatch_command_enter_eager(pb, found) ==
    [pb EXCEPT !.statistics.command_executions = @ + 1]

\* dispatch_command, lines 556-560: the lookup and what precedes the call
dispatch_command_enter(pb, found) ==
    IF found THEN [pb EXCEPT !.statistics.command_executions = @ + 1] ELSE pb

\* --------------------------------------------------------- initial state
\* inv and nraised are history: the handlers of the list a dispatch_event has
\* called so far, and how many wrapped handler invocations of the task raised
\* event is the chat event a dispatchCommand request carries; "" stands for a
\* key the event does not have
NoEvent == [message_type |-> "", user_id |-> "", group_id |-> ""]
NoTask == [st |-> "unused", id |-> 0, action |-> "", cmd |-> "", call |-> 0,
           idx |-> 0, rh |-> "none", ch |-> "none", err |-> "",
           inv |-> <<>>, nraised |-> 0, event |-> NoEvent]
NoPerf == [n \in {} |-> NewPerf]
\* the three maps of PluginBase.performance (__init__, lines 81-85)
PerfKinds == {"command", "event", "task"}
NoHistory == [n \in {} |-> <<>>]
\* names schedule may be called with and the host may dispatch
TaskNames == {"tk"}

\* the load message the host writes first (run_plugin, lines 682-697)
LoadLine ==
    [raw |-> "text", json |-> "object", action |-> "load",
     fields |-> {"data", "pluginInfo", "pluginInfo.id", "context"}]

SenderIds == 1..MaxSenders
\* pc: "idle" outside _send, "in_send" when suspended inside it; run: the
\* next run of _send; sent: the messages it has sent; last: how the last
\* _send ended for its caller
NoSender == [pc |-> "idle", run |-> 0, msg |-> NoMsg, ser |-> TRUE, sent |-> 0,
             last |-> "none"]

\* no line was skipped or logged yet
NoSkip == [skipped |-> "", dispatched |-> FALSE]

\* PluginBase.__init__ (lines 40-95) and IPCClient.__init__ (lines 17-21)
InitData ==
    /\ pending_requests = {}
    /\ futures = [c \in CallIds |-> NoFuture]
    /\ calls = [c \in CallIds |-> NoCall]
    /\ stdout = <<>>
    /\ tasks = [t \in TaskIds |-> NoTask]
    /\ settledBy = [c \in CallIds |-> NoMsg]
    /\ statistics = [command_executions |-> 0, events_handled |-> 0,
                     tasks_executed |-> 0, errors_occurred |-> 0]
    /\ performance = [command |-> NoPerf, event |-> NoPerf, task |-> NoPerf]
    /\ errors = <<>>
    /\ concurrent_operations = 0
    /\ max_concurrent_operations = 0
    /\ peak_operations = 0
    /\ perf_history = [k \in PerfKinds |-> NoHistory]
    /\ error_history = <<>>
    /\ snapshots = <<>>
    /\ senders = [s \in SenderIds |-> NoSender]
    /\ stdout_buffer = <<>>
    /\ stdout_ops = <<>>
    /\ running_at_stop = {}
    /\ intake_log = NoSkip
    /\ event_log = [registered |-> {}, msgs |-> <<>>]

\* the request handlers _setup_ipc_handlers (lines 291, 303, 318) and
\* run_plugin (lines 730-733) register
SetupHandlers ==
    {"dispatchCommand", "dispatchTask", "dispatchEvent",
     "enable", "disable", "unload", "getInfo"}

\* a plugin that was loaded: the handshake is over, IPCClient.start has run
\* (lines 23-27) and run_plugin is in its main loop
InitRuntime ==
    /\ running = TRUE
    /\ reader_task = "reading"
    /\ main_task = "polling"
    /\ first_line = LoadLine
    /\ ipc_event_handlers = [request |-> SetupHandlers \cup {"pluginAction"},
                              event |-> 0]
    /\ InitData

\* PluginBase.__init__, line 67: no command is registered yet
Init ==
    /\ InitRuntime
    /\ command_handlers = {}
    /\ event_handlers = [e \in EventTypes |-> 0]
    /\ scheduled_tasks = [n \in TaskNames |-> "absent"]

\* the plugin has registered some of its commands (in on_load or on_enable)
\* and those registerCommand round trips are over
\* ... and has called schedule for some task names: "stored" once
\* registerSchedule was answered and the handler stored (line 540), "info"
\* when that call failed and task_info was left without handler (line 531)
InitDispatch ==
    /\ InitRuntime
    /\ command_handlers \in SUBSET Commands
    /\ event_handlers = [e \in EventTypes |-> 0]
    /\ scheduled_tasks \in [TaskNames -> {"absent", "info", "stored"}]

\* ------------------------------------------------------ the host's lines
\* responses the host may write: to an issued id, or to one never issued (0)
ResponseLines ==
    {Msg("response", i, "", d, "") : i \in 0..MaxCalls, d \in Data}
        \cup {Msg("response", i, "", "", e) : i \in 0..MaxCalls, e \in Errors}

\* actions with a handler in IPCClient.event_handlers: those _setup_ipc_handlers
\* and run_plugin register, and one the plugin registers itself (on_request)
RegisteredActions == ipc_event_handlers.request

\* --------------------------------------------------------- intake loop
\* a lookup that takes the first pending future, whatever the response's id
\* (C1 must notice it)
ResponseTargetFirst(msg_id) ==
    CHOOSE c \in pending_requests : \A d \in pending_requests : c <= d

\* _handle_message, line 86: the future popped for a response's id
ResponseTarget(msg_id) == msg_id

\* an outer except that gives up: the loop ends with the first exception it
\* catches (C29 must notice it)
AfterCaughtErrorEnds == "ended"

\* _read_messages, lines 68-72: the outer except logs, sleeps 0.1 s and the
\* loop goes on
AfterCaughtError == "sleeping"

\* history: the loop skipped or logged a line of this kind
Skipped(kind) == [skipped |-> kind, dispatched |-> FALSE]

\* history: a line was dispatched, after a skipped one if there was one
Dispatched ==
    IF intake_log.skipped = "" THEN intake_log
    ELSE [intake_log EXCEPT !.dispatched = TRUE]

\* a settling that takes every response as a result (C26 must notice it)
SettleAsResult(m) == [st |-> "result", val |-> m.data]

\* _handle_message, lines 87-90: a non-empty error becomes the future's
\* exception, anything else its result
Settle(m) ==
    IF m.error # "" THEN [st |-> "exception", val |-> m.error]
    ELSE [st |-> "result", val |-> m.data]

\* _read_messages handling a response line (_handle_message, lines 83-90):
\* set_result / set_exception on a future that is no longer pending raises
\* InvalidStateError, which the loop's outer except catches (lines 68-72)
ReadResponse(m) ==
    /\ reader_task = "reading"
    /\ IF m.id # 0 /\ m.id \in pending_requests
       THEN LET c == ResponseTarget(m.id) IN
            /\ pending_requests' = pending_requests \ {m.id}
            /\ IF futures[c].st = "pending"
               THEN /\ futures' = [futures EXCEPT ![c] = Settle(m)]
                    /\ settledBy' = [settledBy EXCEPT ![c] = m]
                    /\ reader_task' = "reading"
                    /\ intake_log' = Dispatched
               ELSE /\ reader_task' = AfterCaughtError
                    /\ UNCHANGED <<futures, settledBy, intake_log>>
       ELSE UNCHANGED <<pending_requests, futures, settledBy, reader_task,
                        intake_log>>
    /\ UNCHANGED <<running, main_task, calls, stdout, tasks>>
    /\ UNCHANGED pbVars
    /\ UNCHANGED stopVars

FreeTasks == {t \in TaskIds : tasks[t].st = "unused"}

\* an intake loop that awaits the handler before its next readline (C6 must
\* notice it)
AwaitHandlerInline == "blocked"

\* _handle_message, lines 95 and 100: create_task returns at once, so the
\* intake loop goes back to readline
AfterDispatch == "reading"

\* _handle_message, lines 92-95: a request line becomes a task of its own;
\* the host's id is the task's number, or 0 when the message carries none
ReadRequestEvent(action, cmd, withId, event) ==
    /\ reader_task = "reading"
    /\ FreeTasks # {}
    /\ LET t == CHOOSE x \in FreeTasks : \A y \in FreeTasks : x <= y
       IN tasks' = [tasks EXCEPT ![t] =
                [NoTask EXCEPT !.st = "created",
                               !.id = IF withId THEN t ELSE 0,
                               !.action = action,
                               !.cmd = IF action \in {"dispatchCommand",
                                                           "dispatchEvent",
                                                           "dispatchTask"}
                                       THEN cmd ELSE "",
                               !.event = event]]
    /\ reader_task' = AfterDispatch
    /\ intake_log' = Dispatched
    /\ UNCHANGED <<running, main_task, pending_requests, futures,
                   calls, stdout, settledBy>>
    /\ UNCHANGED pbVars
    /\ UNCHANGED stopVars

ReadRequest(action, cmd, withId) ==
    ReadRequestEvent(action, cmd, withId, NoEvent)

\* chat events a dispatchCommand request may carry: from a group, from a
\* private chat, and one without message_type
CommandEvents ==
    {[message_type |-> "group", user_id |-> "u1", group_id |-> "g1"],
     [message_type |-> "private", user_id |-> "u1", group_id |-> ""],
     [message_type |-> "", user_id |-> "u1", group_id |-> ""]}

\* a dispatchCommand request line with its event (dispatch_command_handler,
\* lines 280-284, passes data['event'] on to the command's handler)
ReadCommand(cmd, event) ==
    ReadRequestEvent("dispatchCommand", cmd, TRUE, event)

\* the host asks for unload once in a run
ReadUnload ==
    /\ \A t \in TaskIds : tasks[t].action # "unload"
    /\ ReadRequest("unload", "", TRUE)

\* _read_messages, lines 55-57: a blank line is skipped
ReadBlank ==
    /\ reader_task = "reading"
    /\ intake_log' = Skipped("blank")
    /\ UNCHANGED <<running, reader_task, main_task, pending_requests, futures,
                   calls, stdout, tasks, settledBy>>
    /\ UNCHANGED pbVars
    /\ UNCHANGED stopVars

\* _read_messages, lines 61-66: a line that is not JSON is logged
ReadBadJson ==
    /\ reader_task = "reading"
    /\ intake_log' = Skipped("bad_json")
    /\ UNCHANGED <<running, reader_task, main_task, pending_requests, futures,
                   calls, stdout, tasks, settledBy>>
    /\ UNCHANGED pbVars
    /\ UNCHANGED stopVars

\* _handle_message, lines 102-103: an object of unknown type is logged
ReadUnknownType ==
    /\ reader_task = "reading"
    /\ intake_log' = Skipped("unknown_type")
    /\ UNCHANGED <<running, reader_task, main_task, pending_requests, futures,
                   calls, stdout, tasks, settledBy>>
    /\ UNCHANGED pbVars
    /\ UNCHANGED stopVars

\* _handle_message, line 78: JSON that is no object has no .get; the
\* AttributeError reaches the outer except, which sleeps 0.1 s (lines 68-72)
ReadNonObject ==
    /\ reader_task = "reading"
    /\ reader_task' = AfterCaughtError
    /\ intake_log' = Skipped("non_object")
    /\ UNCHANGED <<running, main_task, pending_requests, futures,
                   calls, stdout, tasks, settledBy>>
    /\ UNCHANGED pbVars
    /\ UNCHANGED stopVars

\* _read_messages, line 72: the sleep after a caught exception ends
ReaderWake ==
    /\ reader_task = "sleeping"
    /\ reader_task' = "reading"
    /\ UNCHANGED <<running, main_task, pending_requests, futures, calls,
                   stdout, tasks, settledBy>>
    /\ UNCHANGED pbVars
    /\ UNCHANGED otherVars

\* _read_messages, lines 50-53: end of input breaks the loop; running stays set
ReadEOF ==
    /\ reader_task = "reading"
    /\ reader_task' = "ended"
    /\ UNCHANGED <<running, main_task, pending_requests, futures, calls,
                   stdout, tasks, settledBy>>
    /\ UNCHANGED pbVars
    /\ UNCHANGED otherVars

\* ------------------------------------------------ plugin-initiated calls
\* register_command, lines 434-437: store the wrapped handler and create the
\* task that will run _register_command_remote (options may not serialize)
RegisterCommand(cmd, serializable) ==
    /\ main_task = "polling"
    /\ FreeIds(IPC) # {}
    /\ command_handlers' = command_handlers \cup {cmd}
    /\ calls' = [calls EXCEPT ![GenerateId(IPC)] =
                    [NoCall EXCEPT !.st = "created",
                                   !.action = "registerCommand",
                                   !.ser = serializable]]
    /\ UNCHANGED <<running, reader_task, main_task, pending_requests, futures,
                   stdout, tasks, settledBy, event_handlers, scheduled_tasks,
                   perf_history, error_history, statistics,
                   performance, errors, concurrent_operations,
                   max_concurrent_operations, peak_operations>>
    /\ UNCHANGED otherVars

\* _register_command_remote, lines 441-447: the task starts and suspends in
\* send_request
ClientStart(c) ==
    /\ main_task = "polling"
    /\ calls[c].st = "created"
    /\ SetIPC(StartCall(IPC, c, calls[c].action, 0, calls[c].ser))
    /\ UNCHANGED <<running, reader_task, main_task, tasks, settledBy>>
    /\ UNCHANGED pbVars
    /\ UNCHANGED otherVars

\* asyncio.wait_for (send_request, line 196): the timeout elapses while the
\* future is pending; the future is cancelled, the call resumes later
TimerFires(c) ==
    /\ calls[c].st = "awaiting"
    /\ futures[c].st = "pending"
    /\ futures' = [futures EXCEPT ![c] = [st |-> "cancelled", val |-> ""]]
    /\ UNCHANGED <<running, reader_task, main_task, pending_requests, calls,
                   stdout, tasks, settledBy>>
    /\ UNCHANGED pbVars
    /\ UNCHANGED otherVars

\* send_request, lines 196-200, in a task of its own: the call ends
ClientResume(c) ==
    /\ Resumable(c)
    /\ calls[c].owner = 0
    /\ SetIPC(FinishCall(IPC, c))
    /\ UNCHANGED <<running, reader_task, main_task, tasks, settledBy>>
    /\ UNCHANGED pbVars
    /\ UNCHANGED otherVars

\* ------------------------------------------------------ _handle_request
HandlerErrors == {"boom"}

\* _handle_request, lines 125-131: the handler returned, its result is sent
handle_request_returned(ipc, msg_id, data, serializable) ==
    Send(ipc, ResponseMsg(msg_id, data), serializable)

\* _handle_request, lines 132-138: the handler raised, the error is sent
handle_request_raised(ipc, msg_id, error) ==
    Send(ipc, ErrorMsg(msg_id, error), TRUE)

Done(t, rh, ch, err) ==
    [tasks EXCEPT ![t].st = "done", ![t].rh = rh, ![t].ch = ch, ![t].err = err,
                  ![t].call = 0, ![t].idx = 0]

\* a check that lets every request through (C36 must notice it)
missing_id_ignored(msg_id) == FALSE

\* _handle_request, line 112: "if not msg_id"
missing_id(msg_id) == msg_id = 0

\* _handle_request, lines 112-114: a request without an id is ignored
RequestNoId(t) ==
    /\ tasks[t].st = "created"
    /\ missing_id(tasks[t].id)
    /\ tasks' = Done(t, "none", "none", "")
    /\ UNCHANGED <<running, reader_task, main_task, pending_requests, futures,
                   calls, stdout, settledBy>>
    /\ UNCHANGED pbVars
    /\ UNCHANGED otherVars

\* an error text that does not name the action (C19 must notice it)
UnknownActionUnnamed(action) == "Unknown action"

\* _handle_request, line 141: the error text for an action without handler
UnknownAction(action) == "Unknown action: " \o action

\* _handle_request, lines 139-141: no handler registered for the action
RequestUnknownAction(t) ==
    /\ tasks[t].st = "created"
    /\ ~missing_id(tasks[t].id)
    /\ tasks[t].action \notin RegisteredActions
    /\ tasks' = Done(t, "none", "none", "")
    /\ SetIPC(handle_request_raised(IPC, tasks[t].id,
                                    UnknownAction(tasks[t].action)))
    /\ UNCHANGED <<running, reader_task, main_task, settledBy>>
    /\ UNCHANGED pbVars
    /\ UNCHANGED otherVars

Starts(t, action) ==
    /\ tasks[t].st = "created"
    /\ ~missing_id(tasks[t].id)
    /\ tasks[t].action = action
    /\ action \in RegisteredActions

\* a handler the plugin registered with on_request returns at once; its
\* result may not serialize
PluginHandlerReturns(t, serializable) ==
    /\ Starts(t, "pluginAction")
    /\ tasks' = Done(t, "returned", "none", "")
    /\ SetIPC(handle_request_returned(IPC, tasks[t].id, "result", serializable))
    /\ UNCHANGED <<running, reader_task, main_task, settledBy>>
    /\ UNCHANGED pbVars
    /\ UNCHANGED otherVars

\* ... or raises at once
PluginHandlerRaises(t, e) ==
    /\ Starts(t, "pluginAction")
    /\ tasks' = Done(t, "raised", "none", e)
    /\ SetIPC(handle_request_raised(IPC, tasks[t].id, e))
    /\ UNCHANGED <<running, reader_task, main_task, settledBy>>
    /\ UNCHANGED pbVars
    /\ UNCHANGED otherVars

\* ... or awaits a send_request of its own (storage, callApi, notify)
PluginHandlerCalls(t) ==
    /\ Starts(t, "pluginAction")
    /\ FreeIds(IPC) # {}
    /\ LET c == GenerateId(IPC) IN
        /\ tasks' = [tasks EXCEPT ![t].st = "in_handler", ![t].call = c]
        /\ SetIPC(StartCall(IPC, c, "callApi", t, TRUE))
    /\ UNCHANGED <<running, reader_task, main_task, settledBy>>
    /\ UNCHANGED pbVars
    /\ UNCHANGED otherVars

Resumes(t, st, action) ==
    /\ tasks[t].st = st
    /\ tasks[t].action = action
    /\ Resumable(tasks[t].call)

\* the handler is resumed by its call's outcome, and returns
PluginHandlerResumeReturns(t) ==
    /\ Resumes(t, "in_handler", "pluginAction")
    /\ tasks' = Done(t, "returned", "none", "")
    /\ SetIPC(handle_request_returned(FinishCall(IPC, tasks[t].call),
                                      tasks[t].id, "result", TRUE))
    /\ UNCHANGED <<running, reader_task, main_task, settledBy>>
    /\ UNCHANGED pbVars
    /\ UNCHANGED otherVars

\* the handler is resumed by its call's outcome, and raises
PluginHandlerResumeRaises(t, e) ==
    /\ Resumes(t, "in_handler", "pluginAction")
    /\ tasks' = Done(t, "raised", "none", e)
    /\ SetIPC(handle_request_raised(FinishCall(IPC, tasks[t].call),
                                    tasks[t].id, e))
    /\ UNCHANGED <<running, reader_task, main_task, settledBy>>
    /\ UNCHANGED pbVars
    /\ UNCHANGED otherVars

\* ------------------------------------------- dispatchCommand requests
\* the handler _setup_ipc_handlers registers (lines 278-291) runs
\* dispatch_command (lines 544-576), which runs the command's wrapped_handler
\* (lines 395-432), which runs the plugin's handler

\* dispatch_command, lines 574-576: no handler under that name
DispatchUnknownCommand(t) ==
    /\ Starts(t, "dispatchCommand")
    /\ tasks[t].cmd \notin command_handlers
    /\ LET e == "Unknown command: " \o tasks[t].cmd IN
        /\ tasks' = Done(t, "raised", "none", e)
        /\ SetIPC(handle_request_raised(IPC, tasks[t].id, e))
    /\ SetPB(dispatch_command_enter(PB, FALSE))
    /\ UNCHANGED <<running, reader_task, main_task, settledBy,
                   command_handlers, event_handlers,
                   scheduled_tasks, perf_history, error_history>>
    /\ UNCHANGED otherVars

\* the plugin's handler returns without suspending
CommandReturns(t, d) ==
    /\ Starts(t, "dispatchCommand")
    /\ tasks[t].cmd \in command_handlers
    /\ tasks' = Done(t, "returned", "returned", "")
    /\ SetPB(command_wrapper_exit(
                command_wrapper_enter(dispatch_command_enter(PB, TRUE)),
                tasks[t].cmd, d, TRUE))
    /\ SetIPC(handle_request_returned(IPC, tasks[t].id, "success", TRUE))
    /\ UNCHANGED <<running, reader_task, main_task, settledBy,
                   command_handlers, event_handlers,
                   scheduled_tasks, perf_history, error_history>>
    /\ UNCHANGED otherVars

\* send_message, lines 465-471, and call_api, lines 494-497: the data of the
\* callApi request that sends a chat message
send_message(chat_id, msg_type) ==
    "send_" \o msg_type \o "_msg:"
        \o (IF msg_type = "private" THEN "user_id" ELSE "group_id")
        \o "=" \o chat_id

\* register_command.wrapped_handler, lines 420-424: the failure notice goes
\* to event.get('user_id') with event.get('message_type', 'private')
failure_notice(event) ==
    send_message(event.user_id,
                 IF event.message_type = "" THEN "private"
                 ELSE event.message_type)

\* the plugin's handler raises without suspending: the wrapper records the
\* error and awaits send_message with the failure notice (lines 410-424)
CommandRaises(t, e) ==
    /\ Starts(t, "dispatchCommand")
    /\ tasks[t].cmd \in command_handlers
    /\ FreeIds(IPC) # {}
    /\ LET c == GenerateId(IPC) IN
        /\ tasks' = [tasks EXCEPT ![t].st = "notice", ![t].call = c,
                                  ![t].ch = "raised", ![t].err = e,
                                  ![t].nraised = 1]
        /\ SetIPC(StartCallData(IPC, c, "callApi",
                                failure_notice(tasks[t].event), t, TRUE))
    /\ SetPB(command_wrapper_failed(
                command_wrapper_enter(dispatch_command_enter(PB, TRUE)),
                tasks[t].cmd, e))
    /\ UNCHANGED <<running, reader_task, main_task, settledBy,
                   command_handlers, event_handlers,
                   scheduled_tasks, perf_history, error_history>>
    /\ UNCHANGED otherVars

\* the plugin's handler raises and the notice cannot even be built (the
\* request's event is null: event.get raises, line 419): the bare except
\* swallows that, the finally block runs and the wrapper returns normally
CommandRaisesUnnotified(t, e, d) ==
    /\ Starts(t, "dispatchCommand")
    /\ tasks[t].cmd \in command_handlers
    /\ tasks' = [Done(t, "returned", "raised", e) EXCEPT ![t].nraised = 1]
    /\ SetPB(command_wrapper_exit(
                command_wrapper_failed(
                    command_wrapper_enter(dispatch_command_enter(PB, TRUE)),
                    tasks[t].cmd, e),
                tasks[t].cmd, d, FALSE))
    /\ SetIPC(handle_request_returned(IPC, tasks[t].id, "success", TRUE))
    /\ UNCHANGED <<running, reader_task, main_task, settledBy,
                   command_handlers, event_handlers,
                   scheduled_tasks, perf_history, error_history>>
    /\ UNCHANGED otherVars

\* the plugin's handler awaits a send_request (send_message, storage)
CommandCalls(t) ==
    /\ Starts(t, "dispatchCommand")
    /\ tasks[t].cmd \in command_handlers
    /\ FreeIds(IPC) # {}
    /\ LET c == GenerateId(IPC) IN
        /\ tasks' = [tasks EXCEPT ![t].st = "in_handler", ![t].call = c]
        /\ SetIPC(StartCall(IPC, c, "callApi", t, TRUE))
    /\ SetPB(command_wrapper_enter(dispatch_command_enter(PB, TRUE)))
    /\ UNCHANGED <<running, reader_task, main_task, settledBy,
                   command_handlers, event_handlers,
                   scheduled_tasks, perf_history, error_history>>
    /\ UNCHANGED otherVars

\* the plugin's handler is resumed by its call's outcome, and returns
CommandResumeReturns(t, d) ==
    /\ Resumes(t, "in_handler", "dispatchCommand")
    /\ tasks' = Done(t, "returned", "returned", "")
    /\ SetPB(command_wrapper_exit(PB, tasks[t].cmd, d, TRUE))
    /\ SetIPC(handle_request_returned(FinishCall(IPC, tasks[t].call),
                                      tasks[t].id, "success", TRUE))
    /\ UNCHANGED <<running, reader_task, main_task, settledBy,
                   command_handlers, event_handlers,
                   scheduled_tasks, perf_history, error_history>>
    /\ UNCHANGED otherVars

\* the plugin's handler is resumed by its call's outcome, and raises
CommandResumeRaises(t, e) ==
    /\ Resumes(t, "in_handler", "dispatchCommand")
    /\ FreeIds(IPC) # {}
    /\ LET c == GenerateId(IPC) IN
        /\ tasks' = [tasks EXCEPT ![t].st = "notice", ![t].call = c,
                                  ![t].ch = "raised", ![t].err = e,
                                  ![t].nraised = 1]
        /\ SetIPC(StartCallData(FinishCall(IPC, tasks[t].call), c, "callApi",
                                failure_notice(tasks[t].event), t, TRUE))
    /\ SetPB(command_wrapper_failed(PB, tasks[t].cmd, e))
    /\ UNCHANGED <<running, reader_task, main_task, settledBy,
                   command_handlers, event_handlers,
                   scheduled_tasks, perf_history, error_history>>
    /\ UNCHANGED otherVars

\* a wrapper that records the notice's own failure as one more error (C33
\* must notice it)
notice_failed_recorded(pb, command, message) ==
    record_error_internal(pb, "command", command, message)

\* register_command.wrapped_handler, lines 425-426: "except: pass" around
\* the notice
notice_failed(pb, command, message) == pb

\* the failure notice's call ends; whatever its outcome, it is swallowed
\* (lines 425-426), the finally block runs, and the wrapper returns normally:
\* dispatch_command continues at line 564 and the request handler returns
NoticeResume(t, d) ==
    /\ Resumes(t, "notice", "dispatchCommand")
    /\ tasks' = Done(t, "returned", "raised", tasks[t].err)
    /\ LET sent == Outcome(IPC, tasks[t].call) IN
       SetPB(command_wrapper_exit(
                IF sent.kind = "ok" THEN PB
                ELSE notice_failed(PB, tasks[t].cmd, sent.val),
                tasks[t].cmd, d, FALSE))
    /\ SetIPC(handle_request_returned(FinishCall(IPC, tasks[t].call),
                                      tasks[t].id, "success", TRUE))
    /\ UNCHANGED <<running, reader_task, main_task, settledBy,
                   command_handlers, event_handlers,
                   scheduled_tasks, perf_history, error_history>>
    /\ UNCHANGED otherVars

\* --------------------------------------------- dispatchEvent requests
\* the handler _setup_ipc_handlers registers (lines 306-318) runs
\* dispatch_event (lines 368-381), which awaits the wrapped handlers of the
\* type one after the other

\* register_event, lines 330-365: one more wrapped handler in the type's list
RegisterEvent(type) ==
    /\ event_handlers[type] < MaxHandlers
    /\ event_handlers' = [event_handlers EXCEPT ![type] = @ + 1]
    /\ UNCHANGED <<running, reader_task, main_task, pending_requests, futures,
                   calls, stdout, tasks, settledBy, command_handlers,
                   scheduled_tasks, perf_history, error_history,
                   statistics, performance, errors, concurrent_operations,
                   max_concurrent_operations, peak_operations>>
    /\ UNCHANGED otherVars

\* what a handler does when it is called: return, raise, or await a call
Behaviours == {"ret", "raise", "call"}

\* dispatch_event's loop from handler i on, up to the first suspension: beh
\* tells what each handler does, at is the handler that suspended (0: the loop
\* is over), raised whether one of them raised
\* a loop that gives up at the first handler that raises (C17 must notice it)
AfterHandlerAbort(i, n, failed) == IF failed THEN n + 1 ELSE i + 1

\* dispatch_event, lines 376-381: the handler's exception is caught inside the
\* loop, which goes on with the next handler either way
AfterHandler(i, n, failed) == i + 1

RECURSIVE RunHandlers(_, _, _, _, _, _, _)
RunHandlers(pb, type, i, n, beh, d, raised) ==
    IF i > n THEN [pb |-> pb, at |-> 0, raised |-> raised,
                   ran |-> <<>>, fails |-> 0]
    ELSE LET entered == event_wrapper_enter(pb) IN
         CASE beh[i] = "call" -> [pb |-> entered, at |-> i, raised |-> raised,
                                  ran |-> <<i>>, fails |-> 0]
           [] beh[i] = "ret" ->
                LET r == RunHandlers(
                            event_wrapper_exit(entered, type, d, TRUE),
                            type, AfterHandler(i, n, FALSE), n, beh, d, raised)
                IN [r EXCEPT !.ran = <<i>> \o @]
           [] OTHER ->
                LET r == RunHandlers(
                            event_wrapper_exit(
                                event_wrapper_failed(entered, type, "boom"),
                                type, d, FALSE),
                            type, AfterHandler(i, n, TRUE), n, beh, d, TRUE)
                IN [r EXCEPT !.ran = <<i>> \o @, !.fails = @ + 1]

\* where the dispatchEvent task stands after a run r of the loop: suspended
\* in handler r.at's call, or done and answered with success
AfterRun(t, ipc, r) ==
    /\ SetPB(r.pb)
    /\ IF r.at = 0
       THEN /\ tasks' = [Done(t, "returned",
                              IF r.raised THEN "raised" ELSE "returned", "")
                            EXCEPT ![t].inv = @ \o r.ran,
                                   ![t].nraised = @ + r.fails]
            /\ SetIPC(handle_request_returned(ipc, tasks[t].id, "success", TRUE))
       ELSE /\ FreeIds(ipc) # {}
            /\ LET c == GenerateId(ipc) IN
                /\ tasks' = [tasks EXCEPT
                        ![t].st = "in_event", ![t].call = c, ![t].idx = r.at,
                        ![t].ch = IF r.raised THEN "raised" ELSE @,
                        ![t].inv = @ \o r.ran,
                        ![t].nraised = @ + r.fails]
                /\ SetIPC(StartCall(ipc, c, "callApi", t, TRUE))

\* the task starts: dispatch_event runs the type's handlers from the first
EventStart(t, beh, d) ==
    /\ Starts(t, "dispatchEvent")
    /\ AfterRun(t, IPC,
                RunHandlers(PB, tasks[t].cmd, 1, event_handlers[tasks[t].cmd],
                            beh, d, FALSE))
    /\ UNCHANGED <<running, reader_task, main_task, settledBy,
                   command_handlers, event_handlers,
                   scheduled_tasks, perf_history, error_history>>
    /\ UNCHANGED otherVars

\* the suspended handler is resumed by its call's outcome and returns or
\* raises; the loop goes on with the handlers after it
EventResume(t, how, beh, d) ==
    /\ Resumes(t, "in_event", "dispatchEvent")
    /\ LET type == tasks[t].cmd
           left == IF how = "ret"
                   THEN event_wrapper_exit(PB, type, d, TRUE)
                   ELSE event_wrapper_exit(
                            event_wrapper_failed(PB, type, "boom"),
                            type, d, FALSE)
           rest == RunHandlers(left, type,
                               AfterHandler(tasks[t].idx, event_handlers[type],
                                            how = "raise"),
                               event_handlers[type], beh, d,
                               how = "raise" \/ tasks[t].ch = "raised")
       IN AfterRun(t, FinishCall(IPC, tasks[t].call),
                   [rest EXCEPT !.fails = @ + (IF how = "raise" THEN 1 ELSE 0)])
    /\ UNCHANGED <<running, reader_task, main_task, settledBy,
                   command_handlers, event_handlers,
                   scheduled_tasks, perf_history, error_history>>
    /\ UNCHANGED otherVars

\* ---------------------------------------------- dispatchTask requests
\* the handler _setup_ipc_handlers registers (lines 294-304) runs
\* dispatch_task (lines 578-591), which awaits the stored wrapped handler
\* (schedule, lines 519-529)

\* the request handler's answer after dispatch_task returned or raised
TaskAnswered(t, ipc, failed, e) ==
    /\ tasks' = [Done(t, dispatch_task_outcome(failed),
                      IF failed THEN "raised" ELSE "returned", e)
                    EXCEPT ![t].nraised = IF failed THEN 1 ELSE 0]
    /\ SetIPC(IF dispatch_task_outcome(failed) = "returned"
              THEN handle_request_returned(ipc, tasks[t].id, "success", TRUE)
              ELSE handle_request_raised(ipc, tasks[t].id, e))

\* dispatch_task, lines 585-587: no task_info under the name, or one without
\* handler: nothing happens
TaskAbsent(t) ==
    /\ Starts(t, "dispatchTask")
    /\ scheduled_tasks[tasks[t].cmd] # "stored"
    /\ tasks' = Done(t, "returned", "none", "")
    /\ SetIPC(handle_request_returned(IPC, tasks[t].id, "success", TRUE))
    /\ UNCHANGED <<running, reader_task, main_task, settledBy>>
    /\ UNCHANGED pbVars
    /\ UNCHANGED otherVars

\* the task handler returns without suspending
TaskReturns(t) ==
    /\ Starts(t, "dispatchTask")
    /\ scheduled_tasks[tasks[t].cmd] = "stored"
    /\ SetPB(task_wrapper_enter(PB))
    /\ TaskAnswered(t, IPC, FALSE, "")
    /\ UNCHANGED <<running, reader_task, main_task, settledBy,
                   command_handlers, event_handlers,
                   scheduled_tasks, perf_history, error_history>>
    /\ UNCHANGED otherVars

\* the task handler raises without suspending
TaskRaises(t, e) ==
    /\ Starts(t, "dispatchTask")
    /\ scheduled_tasks[tasks[t].cmd] = "stored"
    /\ SetPB(task_wrapper_failed(task_wrapper_enter(PB), tasks[t].cmd, e))
    /\ TaskAnswered(t, IPC, TRUE, e)
    /\ UNCHANGED <<running, reader_task, main_task, settledBy,
                   command_handlers, event_handlers,
                   scheduled_tasks, perf_history, error_history>>
    /\ UNCHANGED otherVars

\* the task handler awaits a send_request
TaskCalls(t) ==
    /\ Starts(t, "dispatchTask")
    /\ scheduled_tasks[tasks[t].cmd] = "stored"
    /\ FreeIds(IPC) # {}
    /\ LET c == GenerateId(IPC) IN
        /\ tasks' = [tasks EXCEPT ![t].st = "in_task", ![t].call = c]
        /\ SetIPC(StartCall(IPC, c, "callApi", t, TRUE))
    /\ SetPB(task_wrapper_enter(PB))
    /\ UNCHANGED <<running, reader_task, main_task, settledBy,
                   command_handlers, event_handlers,
                   scheduled_tasks, perf_history, error_history>>
    /\ UNCHANGED otherVars

\* the task handler is resumed by its call's outcome, and returns
TaskResumeReturns(t) ==
    /\ Resumes(t, "in_task", "dispatchTask")
    /\ TaskAnswered(t, FinishCall(IPC, tasks[t].call), FALSE, "")
    /\ UNCHANGED <<running, reader_task, main_task, settledBy>>
    /\ UNCHANGED pbVars
    /\ UNCHANGED otherVars

\* the task handler is resumed by its call's outcome, and raises
TaskResumeRaises(t, e) ==
    /\ Resumes(t, "in_task", "dispatchTask")
    /\ SetPB(task_wrapper_failed(PB, tasks[t].cmd, e))
    /\ TaskAnswered(t, FinishCall(IPC, tasks[t].call), TRUE, e)
    /\ UNCHANGED <<running, reader_task, main_task, settledBy,
                   command_handlers, event_handlers,
                   scheduled_tasks, perf_history, error_history>>
    /\ UNCHANGED otherVars

\* ------------------------------------------------- unload and shutdown
\* run_plugin.handle_unload (lines 722-725): on_unload, then IPCClient.stop
\* (lines 29-37), which clears running, cancels the reader task and awaits it
UnloadStart(t) ==
    /\ Starts(t, "unload")
    /\ running' = FALSE
    /\ IF reader_task \in {"ended", "cancelled"}
       THEN /\ tasks' = Done(t, "returned", "none", "")
            /\ SetIPC(handle_request_returned(IPC, tasks[t].id, "success", TRUE))
            /\ UNCHANGED reader_task
       ELSE /\ tasks' = [tasks EXCEPT ![t].st = "stopping"]
            /\ reader_task' = "cancelling"
            /\ UNCHANGED <<calls, futures, pending_requests, stdout>>
    /\ UNCHANGED <<main_task, settledBy>>
    /\ UNCHANGED pbVars
    /\ running_at_stop' = {u \in TaskIds : tasks[u].st = "in_handler"}
    /\ UNCHANGED <<auxVars, intake_log>>

\* the reader task receives the CancelledError and ends
ReaderCancelled ==
    /\ reader_task = "cancelling"
    /\ reader_task' = "cancelled"
    /\ UNCHANGED <<running, main_task, pending_requests, futures, calls,
                   stdout, tasks, settledBy>>
    /\ UNCHANGED pbVars
    /\ UNCHANGED otherVars

\* stop returns once the reader task is done; handle_unload returns
UnloadResume(t) ==
    /\ tasks[t].st = "stopping"
    /\ reader_task \in {"ended", "cancelled"}
    /\ tasks' = Done(t, "returned", "none", "")
    /\ SetIPC(handle_request_returned(IPC, tasks[t].id, "success", TRUE))
    /\ UNCHANGED <<running, reader_task, main_task, settledBy>>
    /\ UNCHANGED pbVars
    /\ UNCHANGED otherVars

\* run_plugin, lines 749-751: the main loop wakes, finds running cleared and
\* returns; asyncio.run (example plugin main.py:220) then cancels what is left
MainExit ==
    /\ main_task = "polling"
    /\ ~running
    /\ main_task' = "exited"
    /\ UNCHANGED <<running, reader_task, pending_requests, futures, calls,
                   stdout, tasks, settledBy>>
    /\ UNCHANGED pbVars
    /\ UNCHANGED otherVars

\* asyncio.run cancels the tasks that are left when the loop has stopped.
\* The loop runs what is ready in the order it became ready: a task that was
\* created, or whose future was settled or timed out, before stop() ran has
\* its turn before the loop stops, so only tasks suspended on a pending
\* future are left.

\* a task awaiting send_request is cancelled: wait_for cancels the future and
\* the CancelledError passes through send_request, whose only except clause
\* is for TimeoutError (lines 195-200)
CancelCall(ipc, c) ==
    [ipc EXCEPT
        !.calls[c].st = "done",
        !.calls[c].outcome = [kind |-> "cancelled", val |-> ""],
        !.futures[c] = IF @.st = "pending"
                       THEN [st |-> "cancelled", val |-> ""] ELSE @]

\* asyncio.run cancels a _register_command_remote task
CancelClient(c) ==
    /\ main_task = "exited"
    /\ calls[c].owner = 0
    /\ calls[c].st = "awaiting"
    /\ futures[c].st = "pending"
    /\ SetIPC(CancelCall(IPC, c))
    /\ UNCHANGED <<running, reader_task, main_task, tasks, settledBy>>
    /\ UNCHANGED pbVars
    /\ UNCHANGED otherVars

\* asyncio.run cancels a _handle_request task suspended in a
\* plugin-registered handler: nothing catches the
\* CancelledError (_handle_request catches Exception only), no response
CancelPluginHandler(t) ==
    /\ main_task = "exited"
    /\ tasks[t].st = "in_handler"
    /\ tasks[t].action = "pluginAction"
    /\ futures[tasks[t].call].st = "pending"
    /\ tasks' = [tasks EXCEPT ![t].st = "cancelled", ![t].call = 0]
    /\ SetIPC(CancelCall(IPC, tasks[t].call))
    /\ UNCHANGED <<running, reader_task, main_task, settledBy>>
    /\ UNCHANGED pbVars
    /\ UNCHANGED otherVars

\* ... one suspended in stop: "except asyncio.CancelledError: pass" (lines
\* 36-37) swallows it and handle_unload returns
CancelStopping(t) ==
    /\ main_task = "exited"
    /\ tasks[t].st = "stopping"
    /\ tasks' = Done(t, "returned", "none", "")
    /\ SetIPC(handle_request_returned(IPC, tasks[t].id, "success", TRUE))
    /\ UNCHANGED <<running, reader_task, main_task, settledBy>>
    /\ UNCHANGED pbVars
    /\ UNCHANGED otherVars

\* ------------------------------------------------------- _handle_event
\* IPCClient.on_event (lines 161-163): the handler is stored under the
\* action's key, in place of what was stored there
on_event(registry, h) == [registry EXCEPT !.event = h]

\* plugin code registers one more handler for the event action
OnEvent(h) ==
    /\ main_task = "polling"
    /\ h \notin event_log.registered
    /\ ipc_event_handlers' = on_event(ipc_event_handlers, h)
    /\ event_log' = [event_log EXCEPT !.registered = @ \cup {h}]
    /\ UNCHANGED <<running, reader_task, main_task, pending_requests, futures,
                   calls, stdout, tasks, settledBy>>
    /\ UNCHANGED pbVars
    /\ UNCHANGED <<ioVars, running_at_stop, intake_log>>

\* _handle_message, lines 97-100: an event line becomes a task of its own
ReadEvent ==
    /\ reader_task = "reading"
    /\ Len(event_log.msgs) < MaxEvents
    /\ event_log' = [event_log EXCEPT !.msgs =
            Append(@, [st |-> "created", called |-> {}, handler |-> "none"])]
    /\ reader_task' = AfterDispatch
    /\ intake_log' = Dispatched
    /\ UNCHANGED <<running, main_task, pending_requests, futures,
                   calls, stdout, tasks, settledBy>>
    /\ UNCHANGED pbVars
    /\ UNCHANGED <<ioVars, running_at_stop, ipc_event_handlers>>

\* an except branch that answers as _handle_request does (C32 must notice it)
handle_event_raised_answered(ipc, error) == Send(ipc, ErrorMsg(0, error), TRUE)

\* _handle_event, lines 152-155: the handler's exception is logged to stderr
handle_event_raised(ipc, error) == ipc

\* _handle_event, lines 145-155: the task looks the action's handler up and
\* awaits it; the handler returns or raises
HandleEvent(i, raises) ==
    /\ i \in 1..Len(event_log.msgs)
    /\ event_log.msgs[i].st = "created"
    /\ LET h == ipc_event_handlers.event IN
       /\ event_log' = [event_log EXCEPT !.msgs[i] =
                [st |-> "done",
                 called |-> IF h = 0 THEN {} ELSE {h},
                 handler |-> IF h = 0 THEN "absent"
                             ELSE IF raises THEN "raised" ELSE "returned"]]
       /\ SetIPC(IF h # 0 /\ raises THEN handle_event_raised(IPC, "boom")
                 ELSE IPC)
    /\ UNCHANGED <<running, reader_task, main_task, tasks, settledBy>>
    /\ UNCHANGED pbVars
    /\ UNCHANGED <<ioVars, running_at_stop, intake_log, ipc_event_handlers>>

\* ------------------------------------------------------------- schedule
\* the owner of a call made by a schedule coroutine
ScheduleOwner == -2

\* a schedule that stores the handler with task_info, before the host has
\* answered (C35 must notice it)
schedule_entry_with_handler == "stored"

\* schedule, lines 510-531: task_info is stored without a handler
schedule_entry == "info"

\* the task name a registerSchedule call was made for (the request's data)
ScheduleOf(c) ==
    CHOOSE n \in TaskNames :
        \E i \in 1..Len(stdout) :
            stdout[i] = RequestMsgData(c, "registerSchedule", n)

\* plugin code awaits schedule(name, cron, handler): lines 510-537, up to
\* the suspension in send_request
ScheduleCalls(name) ==
    /\ main_task = "polling"
    /\ FreeIds(IPC) # {}
    /\ scheduled_tasks' = [scheduled_tasks EXCEPT ![name] = schedule_entry]
    /\ SetIPC(StartCallData(IPC, GenerateId(IPC), "registerSchedule", name,
                            ScheduleOwner, TRUE))
    /\ UNCHANGED <<running, reader_task, main_task, tasks, settledBy,
                   command_handlers, event_handlers, perf_history,
                   error_history, statistics, performance, errors,
                   concurrent_operations, max_concurrent_operations,
                   peak_operations>>
    /\ UNCHANGED otherVars

\* schedule resumed, lines 534-540: the host's answer stores the handler in
\* the entry now under the name; an error or a timeout leaves schedule by
\* the exception, before line 540
ScheduleResume(c) ==
    /\ Resumable(c)
    /\ calls[c].owner = ScheduleOwner
    /\ SetIPC(FinishCall(IPC, c))
    /\ scheduled_tasks' =
            IF Outcome(IPC, c).kind = "ok"
            THEN [scheduled_tasks EXCEPT ![ScheduleOf(c)] = "stored"]
            ELSE scheduled_tasks
    /\ UNCHANGED <<running, reader_task, main_task, tasks, settledBy,
                   command_handlers, event_handlers, perf_history,
                   error_history, statistics, performance, errors,
                   concurrent_operations, max_concurrent_operations,
                   peak_operations>>
    /\ UNCHANGED otherVars

\* ------------------------------------------------------------ startup
\* run_plugin (lines 678-751) reads the first line itself, before the intake
\* loop exists, and expects the load message in it.

Line(raw, json, action, fields) ==
    [raw |-> raw, json |-> json, action |-> action, fields |-> fields]

\* first lines the host may write: none (end of input), a blank one, text that
\* is not JSON, JSON that is no object, an object with another action or
\* none, and load messages lacking data, pluginInfo, pluginInfo.id or context
FirstLines ==
    {Line("eof", "invalid", "", {}),
     Line("blank", "invalid", "", {}),
     Line("text", "invalid", "", {}),
     Line("text", "array", "", {}),
     Line("text", "object", "enable", LoadLine.fields),
     Line("text", "object", "", LoadLine.fields),
     Line("text", "object", "load", {}),
     Line("text", "object", "load", {"data", "context"}),
     Line("text", "object", "load", {"data", "pluginInfo", "pluginInfo.id"}),
     Line("text", "object", "load", {"data", "pluginInfo", "context"}),
     LoadLine}

\* a handshake that takes any object as the load message (C21 must notice it)
handshake_any_object(line) ==
    IF line.raw # "text" \/ line.json # "object" THEN "failed" ELSE "started"

\* run_plugin, lines 682-701: the checks a first line goes through, in order;
\* each failure is an exception that reaches line 764
handshake(line) ==
    IF line.raw # "text" THEN "failed"                  \* lines 682-684
    ELSE IF line.json = "invalid" THEN "failed"         \* line 688
    ELSE IF line.json # "object" THEN "failed"          \* line 690: no .get
    ELSE IF line.action # "load" THEN "failed"          \* lines 690-691
    ELSE IF ~({"data", "pluginInfo"} \subseteq line.fields)
    THEN "failed"                                       \* line 696
    ELSE IF "context" \notin line.fields THEN "failed"  \* line 697
    ELSE IF "pluginInfo.id" \notin line.fields
    THEN "failed"                                       \* line 701 (__init__, 58)
    ELSE "started"

\* IPCClient.on_request (lines 157-159), for each of these actions
on_request(registry, actions) ==
    [registry EXCEPT !.request = @ \cup actions]

\* a run_plugin that registers its lifecycle handlers only after on_load
\* (C37 must notice it)
registered_after_setup == {"dispatchCommand", "dispatchTask", "dispatchEvent"}

\* run_plugin, lines 706-733: between IPCClient.start, which only creates
\* the reader task, and the first await that can suspend (on_load, line
\* 737), _setup_ipc_handlers and the four on_request calls have run
registered_before_on_load == SetupHandlers

\* the id of the load message
LoadId == MaxReqs + 1
\* the owner of a call made by run_plugin's own coroutine (in on_load)
MainOwner == -1

\* run_plugin, lines 764-768: the handshake failed, sys.exit(1)
HandshakeFails ==
    /\ main_task = "init"
    /\ handshake(first_line) = "failed"
    /\ main_task' = "exit1"
    /\ UNCHANGED <<running, reader_task, pending_requests, futures, calls,
                   stdout, tasks, settledBy>>
    /\ UNCHANGED pbVars
    /\ UNCHANGED otherVars

\* run_plugin, lines 742-745: the load message is answered
load_response(ipc) == Send(ipc, ResponseMsg(LoadId, "loaded"), TRUE)

\* run_plugin, lines 701-751: the plugin is created, IPCClient.start creates
\* the reader task, the handlers are registered, on_load returns without
\* suspending, the load message is answered and the main loop sleeps
LoadReturns ==
    /\ main_task = "init"
    /\ handshake(first_line) = "started"
    /\ running' = TRUE
    /\ reader_task' = "reading"
    /\ main_task' = "polling"
    /\ SetIPC(load_response(IPC))
    /\ UNCHANGED <<tasks, settledBy>>
    /\ UNCHANGED pbVars
    /\ ipc_event_handlers' = on_request(ipc_event_handlers,
                                        registered_before_on_load)
    /\ UNCHANGED <<ioVars, event_log, running_at_stop, intake_log>>

\* ... on_load raises: line 764, sys.exit(1); the reader task never ran
LoadRaises ==
    /\ main_task = "init"
    /\ handshake(first_line) = "started"
    /\ running' = TRUE
    /\ reader_task' = "cancelled"
    /\ main_task' = "exit1"
    /\ UNCHANGED <<pending_requests, futures, calls, stdout, tasks, settledBy>>
    /\ UNCHANGED pbVars
    /\ ipc_event_handlers' = on_request(ipc_event_handlers,
                                        registered_before_on_load)
    /\ UNCHANGED <<ioVars, event_log, running_at_stop, intake_log>>

\* ... on_load awaits a send_request (a storage call): run_plugin is suspended
\* at line 737 and the reader task runs
LoadCalls ==
    /\ main_task = "init"
    /\ handshake(first_line) = "started"
    /\ running' = TRUE
    /\ reader_task' = "reading"
    /\ main_task' = "on_load"
    /\ SetIPC(StartCall(IPC, GenerateId(IPC), "storage.get", MainOwner, TRUE))
    /\ UNCHANGED <<tasks, settledBy>>
    /\ UNCHANGED pbVars
    /\ ipc_event_handlers' = on_request(ipc_event_handlers,
                                        registered_before_on_load)
    /\ UNCHANGED <<ioVars, event_log, running_at_stop, intake_log>>

\* on_load is resumed by its call's outcome and returns: lines 737-751
OnLoadResumeReturns(c) ==
    /\ main_task = "on_load"
    /\ calls[c].owner = MainOwner
    /\ Resumable(c)
    /\ main_task' = "polling"
    /\ SetIPC(load_response(FinishCall(IPC, c)))
    /\ UNCHANGED <<running, reader_task, tasks, settledBy>>
    /\ UNCHANGED pbVars
    /\ UNCHANGED otherVars

\* on_load is resumed and raises: line 764, sys.exit(1) ends the event loop
OnLoadResumeRaises(c) ==
    /\ main_task = "on_load"
    /\ calls[c].owner = MainOwner
    /\ Resumable(c)
    /\ main_task' = "exit1"
    /\ reader_task' = "cancelled"
    /\ SetIPC(FinishCall(IPC, c))
    /\ UNCHANGED <<running, tasks, settledBy>>
    /\ UNCHANGED pbVars
    /\ UNCHANGED otherVars

\* run_plugin.handle_enable (lines 714-716) run by _handle_request: on_enable
\* returns and the request is answered
EnableReturns(t) ==
    /\ main_task \in {"on_load", "polling"}
    /\ Starts(t, "enable")
    /\ tasks' = Done(t, "returned", "none", "")
    /\ SetIPC(handle_request_returned(IPC, tasks[t].id, "success", TRUE))
    /\ UNCHANGED <<running, reader_task, main_task, settledBy>>
    /\ UNCHANGED pbVars
    /\ UNCHANGED otherVars

\* run_plugin.handle_disable (lines 718-720): on_disable returns
DisableReturns(t) ==
    /\ main_task \in {"on_load", "polling"}
    /\ Starts(t, "disable")
    /\ tasks' = Done(t, "returned", "none", "")
    /\ SetIPC(handle_request_returned(IPC, tasks[t].id, "success", TRUE))
    /\ UNCHANGED <<running, reader_task, main_task, settledBy>>
    /\ UNCHANGED pbVars
    /\ UNCHANGED otherVars

\* run_plugin.handle_get_info (lines 727-728): the snapshot is the result
GetInfoReturns(t) ==
    /\ main_task \in {"on_load", "polling"}
    /\ Starts(t, "getInfo")
    /\ tasks' = Done(t, "returned", "none", "")
    /\ SetIPC(handle_request_returned(IPC, tasks[t].id, "info", TRUE))
    /\ UNCHANGED <<running, reader_task, main_task, settledBy>>
    /\ UNCHANGED pbVars
    /\ UNCHANGED otherVars

\* -------------------------------------------------------------- _send
\* IPCClient._send (lines 240-247) seen from sys.stdout: json.dumps, one
\* write of the text and its newline into the stream's buffer, and the flush
\* that hands the buffer to the host.  Several tasks send at the same time;
\* another task runs only where the sending one suspends.

\* a _send that suspends between write and flush (C23 must notice it)
send_runs_yielding == << <<"dumps", "write">>, <<"flush">> >>

\* _send, lines 242-245: the uninterrupted runs it is made of.  There is no
\* await in it, so it is one run.
send_runs == << <<"dumps", "write", "flush">> >>

\* the writer's state as one value; st is "dropped" once json.dumps raised
Writer == [buf |-> stdout_buffer, out |-> stdout, ops |-> stdout_ops,
           st |-> "sending"]

\* a failed json.dumps that leaves the start of a line behind (C30 must
\* notice it)
dumps_failed_partial(w) ==
    [w EXCEPT !.st = "dropped", !.buf = Append(@, NoMsg)]

\* _send, lines 246-247: the exception of json.dumps is caught and logged;
\* write and flush are skipped
dumps_failed(w) == [w EXCEPT !.st = "dropped"]

\* one operation of _send on the writer
SendOp(w, who, message, serializable, op) ==
    LET logged == [w EXCEPT !.ops = Append(@, [who |-> who, op |-> op,
                                               id |-> message.id])]
    IN CASE op = "dumps" ->
                IF serializable THEN logged ELSE dumps_failed(logged)
         [] op = "write" -> [logged EXCEPT !.buf = Append(@, message)]
         [] OTHER -> [logged EXCEPT !.out = @ \o logged.buf, !.buf = <<>>]

\* the operations of one run, in order, until one raises
RECURSIVE SendRun(_, _, _, _, _)
SendRun(w, who, message, serializable, run) ==
    IF run = <<>> \/ w.st = "dropped" THEN w
    ELSE SendRun(SendOp(w, who, message, serializable, Head(run)),
                 who, message, serializable, Tail(run))

\* the k-th message of sender s
SenderMsg(s, k) == ResponseMsg((k - 1) * MaxSenders + s, "d1")

\* task s calls _send with its next message, or is resumed inside _send, and
\* runs to the next suspension or to the return of _send
Sends(s, serializable) ==
    /\ \/ senders[s].pc = "idle" /\ senders[s].sent < MaxSends
       \/ senders[s].pc = "in_send" /\ senders[s].ser = serializable
    /\ LET begins == senders[s].pc = "idle"
           k == IF begins THEN 1 ELSE senders[s].run
           message == IF begins THEN SenderMsg(s, senders[s].sent + 1)
                      ELSE senders[s].msg
           w == SendRun(Writer, s, message, serializable, send_runs[k])
           over == w.st = "dropped" \/ k = Len(send_runs)
       IN /\ stdout_buffer' = w.buf
          /\ stdout' = w.out
          /\ stdout_ops' = w.ops
          /\ senders' = [senders EXCEPT ![s] =
                [pc |-> IF over THEN "idle" ELSE "in_send",
                 run |-> IF over THEN 0 ELSE k + 1,
                 msg |-> message,
                 ser |-> serializable,
                 sent |-> IF begins THEN senders[s].sent + 1
                          ELSE senders[s].sent,
                 last |-> IF over THEN "returned" ELSE senders[s].last]]
    /\ UNCHANGED <<running, reader_task, main_task, pending_requests, futures,
                   calls, tasks, settledBy, first_line, snapshots,
                   running_at_stop, intake_log, ipc_event_handlers,
                   event_log>>
    /\ UNCHANGED pbVars

\* -------------------------------------------------------- diagnostics
\* get_detailed_info (lines 608-639) builds a new dict.  Each part of it is
\* either a value made for the snapshot or the runtime's own object; val is
\* what the part held when the snapshot was taken.

\* the last n elements of a sequence (a slice makes a new list)
LastOf(seq, n) ==
    IF Len(seq) <= n THEN seq ELSE SubSeq(seq, Len(seq) - n + 1, Len(seq))

get_detailed_info(pb) ==
    [errors |-> [alias |-> FALSE,                       \* line 625
                 val |-> LastOf(pb.errors, SnapshotErrors)],
     statistics |-> [alias |-> TRUE,                    \* line 626
                     val |-> pb.statistics],
     performance |-> [alias |-> TRUE,                   \* lines 628-630
                      val |-> pb.performance],
     threadSafety |-> [alias |-> FALSE,                 \* lines 634-635
                       val |-> <<pb.conc, pb.maxc>>],
     tasks |-> [alias |-> FALSE,                        \* lines 617-623
                val |-> {[name |-> n, is_active |-> TRUE] :
                            n \in {m \in TaskNames :
                                      scheduled_tasks[m] # "absent"}}]]

\* plugin code calls get_detailed_info and keeps what it returns
TakeSnapshot ==
    /\ Len(snapshots) < MaxSnapshots
    /\ snapshots' = Append(snapshots, get_detailed_info(PB))
    /\ UNCHANGED <<running, reader_task, main_task, pending_requests, futures,
                   calls, stdout, tasks, settledBy, first_line, senders,
                   stdout_buffer, stdout_ops, running_at_stop, intake_log,
                   ipc_event_handlers, event_log>>
    /\ UNCHANGED pbVars

\* what a part of a kept snapshot shows now
Shown(part, live) == IF part.alias THEN live ELSE part.val

\* ------------------------------------------------------- the recorders
\* _record_performance and _record_error (lines 256-268) are what the
\* wrappers and the plugin itself call; here they are called on their own, as
\* often as the caps need.

\* a handler that takes the same time on every run and succeeds: the longest
\* duration that is still an exact float of Precision bits
SteadySample == [duration |-> Pow2(Precision) - 1, success |-> TRUE]
VariedSamples ==
    [duration : Durations \cup {-1}, success : BOOLEAN] \ {SteadySample}
RecorderTypes == {"command", "task", "other"}
RecorderNames == {"cx"}
\* the steady sample belongs to the command cx
SteadyType == "command"

Recorded(hist) ==
    {<<k, n>> : k \in PerfKinds, n \in RecorderNames} \cap
    {kn \in PerfKinds \X RecorderNames : kn[2] \in DOMAIN hist[kn[1]]}

RECURSIVE Total(_, _)
Total(hist, keys) ==
    IF keys = {} THEN 0
    ELSE LET kn == CHOOSE x \in keys : TRUE
         IN Len(hist[kn[1]][kn[2]]) + Total(hist, keys \ {kn})

Varied(seq, steady) == Cardinality({i \in 1..Len(seq) : seq[i] # steady})

RECURSIVE TotalVaried(_, _)
TotalVaried(hist, keys) ==
    IF keys = {} THEN 0
    ELSE LET kn == CHOOSE x \in keys : TRUE
         IN (IF kn[1] = SteadyType
             THEN Varied(hist[kn[1]][kn[2]], SteadySample)
             ELSE Len(hist[kn[1]][kn[2]]))
                + TotalVaried(hist, keys \ {kn})

\* the history with one more sample under (kind, name)
Remember(hist, kind, name, sample) ==
    [hist EXCEPT ![kind] =
        [n \in DOMAIN hist[kind] \cup {name} |->
            IF n = name
            THEN Append(IF name \in DOMAIN hist[kind]
                        THEN hist[kind][name] ELSE <<>>, sample)
            ELSE hist[kind][n]]]

\* _record_performance(perf_type, name, duration, success), lines 263-268
RecordPerformance(perf_type, name, sample) ==
    /\ Total(perf_history, Recorded(perf_history)) < MaxSamples
    /\ (sample # SteadySample \/ perf_type # SteadyType) =>
            TotalVaried(perf_history, Recorded(perf_history)) < MaxVaried
    /\ SetPB(record_performance_internal(PB, perf_type, name,
                                         sample.duration, sample.success))
    /\ perf_history' = IF sample.duration < 0 THEN perf_history
                       ELSE Remember(perf_history, PerfKind(perf_type), name,
                                     sample)
    /\ UNCHANGED <<running, reader_task, main_task, pending_requests, futures,
                   calls, stdout, tasks, settledBy, command_handlers,
                   event_handlers, scheduled_tasks, error_history>>
    /\ UNCHANGED otherVars

SteadyError == [type |-> "command", source |-> "cx", message |-> "boom"]
VariedErrors ==
    [type : {"command", "plugin"}, source : {"cx"}, message : {"boom", "e1"}]
        \ {SteadyError}

\* _record_error(error_type, source, error), lines 256-261
RecordError(e) ==
    /\ Len(error_history) < MaxErrors
    /\ e # SteadyError => Varied(error_history, SteadyError) < MaxVaried
    /\ SetPB(record_error_internal(PB, e.type, e.source, e.message))
    /\ error_history' = Append(error_history, e)
    /\ UNCHANGED <<running, reader_task, main_task, pending_requests, futures,
                   calls, stdout, tasks, settledBy, command_handlers,
                   event_handlers, scheduled_tasks, perf_history>>
    /\ UNCHANGED otherVars

\* --------------------------------------------------------- specifications
\* The correlation registry: send_request calls in tasks of their own, the
\* intake loop settling them, timeouts, and unload followed by shutdown.
Next ==
    \/ \E m \in ResponseLines : ReadResponse(m)
    \/ ReadUnload
    \/ ReadBlank
    \/ ReadBadJson
    \/ ReadUnknownType
    \/ ReadNonObject
    \/ ReaderWake
    \/ ReadEOF
    \/ \E cmd \in Commands : RegisterCommand(cmd, TRUE)
    \/ \E c \in CallIds : ClientStart(c)
    \/ \E c \in CallIds : TimerFires(c)
    \/ \E c \in CallIds : ClientResume(c)
    \/ \E t \in TaskIds : UnloadStart(t)
    \/ ReaderCancelled
    \/ \E t \in TaskIds : UnloadResume(t)
    \/ MainExit
    \/ \E c \in CallIds : CancelClient(c)
    \/ \E t \in TaskIds : CancelStopping(t)

Spec == Init /\ [][Next]_vars

\* The same with the event loop's scheduling: a task that can run does run,
\* a sleep ends, a pending timeout fires.  What the host writes, and when the
\* plugin registers a command, is left to them.
SpecLive ==
    /\ Init /\ [][Next]_vars
    /\ WF_vars(MainExit)
    /\ WF_vars(ReaderWake)
    /\ WF_vars(ReaderCancelled)
    /\ WF_vars(\E c \in CallIds : ClientStart(c))
    /\ WF_vars(\E c \in CallIds : TimerFires(c))
    /\ WF_vars(\E c \in CallIds : ClientResume(c))
    /\ WF_vars(\E t \in TaskIds : UnloadStart(t))
    /\ WF_vars(\E t \in TaskIds : UnloadResume(t))
    /\ WF_vars(\E c \in CallIds : CancelClient(c))
    /\ WF_vars(\E t \in TaskIds : CancelStopping(t))

\* The request router: host requests for a plugin-registered handler, for an
\* action without handler and for unload, with the handlers' own calls.
NextRouter ==
    \/ \E m \in ResponseLines : ReadResponse(m)
    \/ \E a \in {"pluginAction", "noSuchAction"}, withId \in BOOLEAN :
            ReadRequest(a, "", withId)
    \/ ReadUnload
    \/ ReaderWake
    \/ ReadEOF
    \/ \E c \in CallIds : TimerFires(c)
    \/ \E t \in TaskIds : RequestNoId(t)
    \/ \E t \in TaskIds : RequestUnknownAction(t)
    \/ \E t \in TaskIds, ser \in BOOLEAN : PluginHandlerReturns(t, ser)
    \/ \E t \in TaskIds, e \in HandlerErrors : PluginHandlerRaises(t, e)
    \/ \E t \in TaskIds : PluginHandlerCalls(t)
    \/ \E t \in TaskIds : PluginHandlerResumeReturns(t)
    \/ \E t \in TaskIds, e \in HandlerErrors : PluginHandlerResumeRaises(t, e)
    \/ \E t \in TaskIds : UnloadStart(t)
    \/ ReaderCancelled
    \/ \E t \in TaskIds : UnloadResume(t)
    \/ MainExit
    \/ \E t \in TaskIds : CancelPluginHandler(t)
    \/ \E t \in TaskIds : CancelStopping(t)

SpecRouter == Init /\ [][NextRouter]_vars

\* Dispatch: dispatchCommand requests through dispatch_command and the
\* command wrapper with its failure notice, dispatchEvent requests through
\* dispatch_event and the event wrappers, dispatchTask requests through
\* dispatch_task and the task wrapper, and the handlers' own calls.
NextDispatch ==
    \/ \E m \in {r \in ResponseLines : r.data # "d2"} : ReadResponse(m)
    \/ \E cmd \in Commands : ReadRequest("dispatchCommand", cmd, TRUE)
    \/ \E type \in EventTypes : ReadRequest("dispatchEvent", type, TRUE)
    \/ \E type \in EventTypes : RegisterEvent(type)
    \/ \E name \in TaskNames : ReadRequest("dispatchTask", name, TRUE)
    \/ \E t \in TaskIds : TaskAbsent(t)
    \/ \E t \in TaskIds : TaskReturns(t)
    \/ \E t \in TaskIds, e \in HandlerErrors : TaskRaises(t, e)
    \/ \E t \in TaskIds : TaskCalls(t)
    \/ \E t \in TaskIds : TaskResumeReturns(t)
    \/ \E t \in TaskIds, e \in HandlerErrors : TaskResumeRaises(t, e)
    \/ \E t \in TaskIds, beh \in [1..MaxHandlers -> Behaviours],
          d \in Durations : EventStart(t, beh, d)
    \/ \E t \in TaskIds, how \in {"ret", "raise"},
          beh \in [1..MaxHandlers -> Behaviours], d \in Durations :
            EventResume(t, how, beh, d)
    \/ ReaderWake
    \/ \E c \in CallIds : TimerFires(c)
    \/ \E t \in TaskIds : DispatchUnknownCommand(t)
    \/ \E t \in TaskIds, d \in Durations : CommandReturns(t, d)
    \/ \E t \in TaskIds, e \in HandlerErrors : CommandRaises(t, e)
    \/ \E t \in TaskIds, e \in HandlerErrors, d \in Durations :
            CommandRaisesUnnotified(t, e, d)
    \/ \E t \in TaskIds : CommandCalls(t)
    \/ \E t \in TaskIds, d \in Durations : CommandResumeReturns(t, d)
    \/ \E t \in TaskIds, e \in HandlerErrors : CommandResumeRaises(t, e)
    \/ \E t \in TaskIds, d \in Durations : NoticeResume(t, d)

SpecDispatch == InitDispatch /\ [][NextDispatch]_vars

\* The performance recorder on its own, up to MaxSamples samples.
NextPerformance ==
    \E perf_type \in RecorderTypes, name \in RecorderNames,
       sample \in VariedSamples \cup {SteadySample} :
        RecordPerformance(perf_type, name, sample)

SpecPerformance == Init /\ [][NextPerformance]_vars

\* The error recorder on its own, up to MaxErrors records.
NextErrorLog ==
    \E e \in VariedErrors \cup {SteadyError} : RecordError(e)

SpecErrorLog == Init /\ [][NextErrorLog]_vars

\* Startup: the handshake on the first line, on_load with or without a call
\* of its own, the load response, and the host's responses and enable
\* requests read meanwhile.
InitStartup ==
    /\ running = FALSE
    /\ reader_task = "none"
    /\ main_task = "init"
    /\ first_line \in FirstLines
    /\ ipc_event_handlers = [request |-> {}, event |-> 0]
    /\ InitData
    /\ command_handlers = {}
    /\ event_handlers = [e \in EventTypes |-> 0]
    /\ scheduled_tasks = [n \in TaskNames |-> "absent"]

NextStartup ==
    \/ HandshakeFails
    \/ LoadReturns
    \/ LoadRaises
    \/ LoadCalls
    \/ \E c \in CallIds : OnLoadResumeReturns(c)
    \/ \E c \in CallIds : OnLoadResumeRaises(c)
    \/ \E m \in ResponseLines : ReadResponse(m)
    \/ \E a \in {"enable", "disable", "getInfo", "noSuchAction"} :
            ReadRequest(a, "", TRUE)
    \/ \E cmd \in Commands : ReadRequest("dispatchCommand", cmd, TRUE)
    \/ \E type \in EventTypes : ReadRequest("dispatchEvent", type, TRUE)
    \/ \E name \in TaskNames : ReadRequest("dispatchTask", name, TRUE)
    \/ ReadUnload
    \/ \E t \in TaskIds : EnableReturns(t)
    \/ \E t \in TaskIds : DisableReturns(t)
    \/ \E t \in TaskIds : GetInfoReturns(t)
    \/ \E t \in TaskIds : RequestUnknownAction(t)
    \/ \E t \in TaskIds : DispatchUnknownCommand(t)
    \/ \E t \in TaskIds, beh \in [1..MaxHandlers -> {"ret"}],
          d \in Durations : EventStart(t, beh, d)
    \/ \E t \in TaskIds : TaskAbsent(t)
    \/ \E t \in TaskIds : UnloadStart(t)
    \/ ReaderCancelled
    \/ \E t \in TaskIds : UnloadResume(t)
    \/ MainExit
    \/ \E t \in TaskIds : CancelStopping(t)
    \/ \E c \in CallIds : TimerFires(c)
    \/ ReaderWake
    \/ ReadEOF

SpecStartup == InitStartup /\ [][NextStartup]_vars

\* The writer: tasks sending messages through _send at the same time.
NextWriter ==
    \E s \in SenderIds, serializable \in BOOLEAN : Sends(s, serializable)

SpecWriter == Init /\ [][NextWriter]_vars

\* Diagnostics: snapshots taken while errors and samples are recorded.
NextDiagnostics ==
    \/ TakeSnapshot
    \/ Len(error_history) < MaxLogged /\ RecordError(SteadyError)
    \/ /\ Total(perf_history, Recorded(perf_history)) < MaxMeasured
       /\ RecordPerformance(SteadyType, "cx", SteadySample)

SpecDiagnostics == Init /\ [][NextDiagnostics]_vars

\* Failure notices: dispatchCommand requests carrying chat events, for a
\* registered command whose handler may raise.
InitNotice ==
    /\ InitRuntime
    /\ command_handlers = Commands
    /\ event_handlers = [e \in EventTypes |-> 0]
    /\ scheduled_tasks = [n \in TaskNames |-> "absent"]

NextNotice ==
    \/ \E m \in {r \in ResponseLines : r.data # "d2"} : ReadResponse(m)
    \/ \E cmd \in Commands, event \in CommandEvents : ReadCommand(cmd, event)
    \/ ReaderWake
    \/ \E c \in CallIds : TimerFires(c)
    \/ \E t \in TaskIds, d \in Durations : CommandReturns(t, d)
    \/ \E t \in TaskIds, e \in HandlerErrors : CommandRaises(t, e)
    \/ \E t \in TaskIds : CommandCalls(t)
    \/ \E t \in TaskIds, d \in Durations : CommandResumeReturns(t, d)
    \/ \E t \in TaskIds, e \in HandlerErrors : CommandResumeRaises(t, e)
    \/ \E t \in TaskIds, d \in Durations : NoticeResume(t, d)

SpecNotice == InitNotice /\ [][NextNotice]_vars

\* The correlation registry again, with register_command options that
\* json.dumps may refuse (_register_command_remote, lines 441-447, passes
\* them on in the request's data).
NextLifecycle ==
    \/ Next
    \/ \E cmd \in Commands : RegisterCommand(cmd, FALSE)

SpecLifecycle == Init /\ [][NextLifecycle]_vars

\* Event messages: on_event registrations, event lines and their tasks,
\* next to the plugin's own calls and the host's responses.
NextEvents ==
    \/ \E h \in 1..MaxHandlers : OnEvent(h)
    \/ ReadEvent
    \/ \E i \in 1..MaxEvents, raises \in BOOLEAN : HandleEvent(i, raises)
    \/ \E m \in {r \in ResponseLines : r.data # "d2"} : ReadResponse(m)
    \/ \E cmd \in Commands : RegisterCommand(cmd, TRUE)
    \/ \E c \in CallIds : ClientStart(c)

SpecEvents == Init /\ [][NextEvents]_vars

\* Scheduling: schedule calls and their registerSchedule round trips, with
\* dispatchTask requests and diagnostics snapshots at any moment.
NextSchedule ==
    \/ \E name \in TaskNames : ScheduleCalls(name)
    \/ \E c \in CallIds : ScheduleResume(c)
    \/ \E m \in {r \in ResponseLines : r.data # "d2" /\ r.id \in pending_requests} :
            ReadResponse(m)
    \/ \E c \in CallIds : TimerFires(c)
    \/ ReaderWake
    \/ \E name \in TaskNames : ReadRequest("dispatchTask", name, TRUE)
    \/ \E t \in TaskIds : TaskAbsent(t)
    \/ \E t \in TaskIds : TaskReturns(t)
    \/ TakeSnapshot

SpecSchedule == Init /\ [][NextSchedule]_vars

\* ================================================================ claims
Responses(id) ==
    {i \in 1..Len(stdout) : stdout[i].type = "response" /\ stdout[i].id = id}

\* C1: a call that ends with a response's data or error was settled by a
\* response carrying the call's own id, and ends with exactly what that
\* response carried, whatever the order in which responses arrive.
C1_OwnResponse ==
    \A c \in CallIds :
        calls[c].outcome.kind \in {"ok", "error"} =>
            /\ settledBy[c].type = "response"
            /\ settledBy[c].id = c
            /\ calls[c].outcome =
                    IF settledBy[c].error # ""
                    THEN [kind |-> "error", val |-> settledBy[c].error]
                    ELSE [kind |-> "ok", val |-> settledBy[c].data]

\* two requests were written, 1 before 2; 2 was answered first and has ended
\* with its own data while 1 is still pending
C1_Witness ==
    /\ Len(stdout) >= 2
    /\ stdout[1] = RequestMsg(1, "registerCommand")
    /\ stdout[2] = RequestMsg(2, "registerCommand")
    /\ calls[2].outcome = [kind |-> "ok", val |-> "d2"]
    /\ calls[1].st = "awaiting"
    /\ futures[1].st = "pending"

\* C2: a call ended by its timeout fails with a timeout error naming its
\* action, no response settled it, and its entry is gone; when every call made
\* so far has timed out, pending_requests is empty.
C2_TimeoutCleansUp ==
    /\ \A c \in CallIds :
        calls[c].outcome.kind = "timeout" =>
            /\ calls[c].outcome.val = calls[c].action
            /\ settledBy[c] = NoMsg
            /\ c \notin pending_requests
    /\ (\A c \in CallIds : calls[c].st \in {"unused", "created"}
                            \/ calls[c].outcome.kind = "timeout")
            => pending_requests = {}

\* every call of the run has been made and has timed out
C2_Witness ==
    \A c \in CallIds : calls[c].outcome.kind = "timeout"

\* C3: handling a response whose id is unknown or whose future is already
\* settled raises nothing in the intake loop, settles no future, changes no
\* call and leaves every other entry of pending_requests in place.
C3_StaleResponseDiscarded ==
    [][\A m \in ResponseLines :
        (ReadResponse(m)
            /\ (m.id \notin pending_requests \/ futures[m.id].st # "pending"))
        => /\ reader_task' = reader_task
           /\ futures' = futures
           /\ calls' = calls
           /\ pending_requests' \ {m.id} = pending_requests \ {m.id}]_vars

\* C4: pending_requests holds an entry only for a call that is awaiting, so
\* it is empty whenever no send_request call is in progress.
C4_EntryOnlyWhileAwaiting ==
    \A c \in pending_requests : calls[c].st = "awaiting"

\* C5: a request whose handler has finished (returned or raised) has exactly
\* one response on stdout, the result or the error; no request ever has two.
C5_ExactlyOneResponse ==
    \A t \in TaskIds :
        /\ Cardinality(Responses(t)) <= 1
        /\ tasks[t].rh \in {"returned", "raised"} =>
            /\ Cardinality(Responses(t)) = 1
            /\ \A i \in Responses(t) :
                   (stdout[i].error # "") <=> (tasks[t].rh = "raised")

\* C6: while a handler is suspended in a send_request of its own and the
\* intake loop has neither ended nor been stopped, the loop is at readline and
\* can take the response to that call; once the call's future is settled the
\* handler can be resumed.
C6_IntakeNotBlocked ==
    \A t \in TaskIds :
        tasks[t].st = "in_handler" =>
            LET c == tasks[t].call IN
            /\ (futures[c].st = "pending"
                    /\ reader_task \notin {"sleeping", "ended", "cancelling",
                                           "cancelled"})
                => ENABLED ReadResponse(Msg("response", c, "", "d1", ""))
            /\ futures[c].st = "result"
                => ENABLED PluginHandlerResumeReturns(t)

\* a handler that awaited its own call was resumed by the host's response and
\* has answered its request
C6_Witness ==
    \E t \in TaskIds, c \in CallIds :
        /\ tasks[t].rh = "returned"
        /\ calls[c].owner = t
        /\ calls[c].outcome.kind = "ok"
        /\ Cardinality(Responses(t)) = 1

\* C7: a dispatchCommand request whose command handler raised is answered
\* with an error response carrying that error, not with success.
C7_CommandFailureAnswered ==
    \A t \in TaskIds :
        (tasks[t].st = "done" /\ tasks[t].action = "dispatchCommand"
            /\ tasks[t].ch = "raised") =>
            /\ tasks[t].rh = "raised"
            /\ \A i \in Responses(t) : stdout[i] = ErrorMsg(t, tasks[t].err)

\* C8: a dispatch_command call whose handler succeeds adds exactly 1 to
\* statistics['command_executions'].
C8_CountedOnce ==
    [][\A t \in TaskIds, d \in Durations :
        CommandReturns(t, d) =>
            statistics'.command_executions = statistics.command_executions + 1
      ]_vars

\* C9: dispatch_command for a name without handler fails with the unknown
\* command error naming it, runs no handler and changes neither the
\* statistics, nor the performance records, nor the error log.
C9_UnknownCommand ==
    [][\A t \in TaskIds :
        (Starts(t, "dispatchCommand") /\ tasks[t].cmd \notin command_handlers
            /\ tasks'[t] # tasks[t])
        => /\ tasks'[t].st = "done"
           /\ tasks'[t].ch = "none"
           /\ stdout' = Append(stdout,
                    ErrorMsg(t, "Unknown command: " \o tasks[t].cmd))
           /\ UNCHANGED <<statistics, performance, errors,
                          concurrent_operations, max_concurrent_operations>>
      ]_vars

\* an unknown command was dispatched and answered with the error
C9_Witness ==
    \E t \in TaskIds :
        /\ tasks[t].st = "done"
        /\ tasks[t].err = "Unknown command: cx"
        /\ \E i \in Responses(t) : stdout[i].error = "Unknown command: cx"

InProgress ==
    {t \in TaskIds : tasks[t].st \in {"in_handler", "notice", "in_event"}}

\* C10: _concurrent_operations is never negative and always equals the number
\* of wrapped handler invocations in progress: every invocation that is over,
\* by return or by raise, has taken back exactly the one it added.
C10_CounterBalanced ==
    /\ concurrent_operations >= 0
    /\ concurrent_operations = Cardinality(InProgress)

\* a command invocation and an event invocation overlapped, both raised and
\* are over, and the counter is back at 0
C10_Witness ==
    /\ max_concurrent_operations = 2
    /\ concurrent_operations = 0
    /\ \E t, u \in TaskIds :
        /\ tasks[t].st = "done" /\ tasks[t].action = "dispatchCommand"
        /\ tasks[t].ch = "raised"
        /\ tasks[u].st = "done" /\ tasks[u].action = "dispatchEvent"
        /\ tasks[u].ch = "raised"

\* the last min(Len(seq), cap) elements of seq, in order
Newest(seq, cap) ==
    LET k == Len(seq)
        kept == IF k < cap THEN k ELSE cap
    IN SubSeq(seq, k - kept + 1, k)

\* the (kind, name) pairs that have a performance record
PerfRecords ==
    {kn \in PerfKinds \X (Commands \cup EventTypes \cup TaskNames
                            \cup RecorderNames) :
        kn[2] \in DOMAIN performance[kn[1]]}

\* C13: in every performance record, of every kind and name,
\* total_executions = successful_executions + failed_executions.
C13_TallyConsistent ==
    \A kn \in PerfRecords :
        LET r == performance[kn[1]][kn[2]]
        IN r.total_executions = r.successful_executions + r.failed_executions

\* a record holds both successful and failed samples
C13_Witness ==
    \E kn \in PerfRecords :
        LET r == performance[kn[1]][kn[2]]
        IN r.successful_executions >= 2 /\ r.failed_executions >= 1

\* C14: the window of a record never holds more than 20 samples and always
\* holds the newest min(k, 20) of the k samples recorded under its name, in
\* recording order.
C14_WindowKeepsNewest ==
    \A kn \in PerfRecords :
        LET w == performance[kn[1]][kn[2]].last_executions
            h == perf_history[kn[1]][kn[2]]
        IN Len(w) <= WindowCap /\ w = Newest(h, WindowCap)

\* more than 20 samples were recorded under one name and the evicted, oldest
\* one differs from the others
C14_Witness ==
    \E kn \in PerfRecords :
        LET h == perf_history[kn[1]][kn[2]]
        IN Len(h) > WindowCap /\ h[1] # SteadySample
            /\ Len(performance[kn[1]][kn[2]].last_executions) = WindowCap

\* C15: the error log never holds more than 100 records and always holds the
\* newest min(k, 100) of the k errors recorded, in recording order, while
\* statistics['errors_occurred'] is k.
C15_ErrorLogKeepsNewest ==
    /\ Len(errors) <= ErrorCap
    /\ errors = Newest(error_history, ErrorCap)
    /\ statistics.errors_occurred = Len(error_history)

\* more than 100 errors were recorded and the evicted, oldest one differs
\* from the others
C15_Witness ==
    /\ Len(error_history) > ErrorCap
    /\ error_history[1] # SteadyError
    /\ Len(errors) = ErrorCap

\* the durations of a history added up the way the record adds them
RECURSIVE FloatSum(_)
FloatSum(h) ==
    IF h = <<>> THEN 0
    ELSE FloatAdd(FloatSum(SubSeq(h, 1, Len(h) - 1)), h[Len(h)].duration)

\* C16: in every record avg_duration is total_duration / total_executions,
\* total_duration is the sum of the recorded durations, and
\* min_duration <= avg_duration <= max_duration.
C16_AverageBetweenExtremes ==
    \A kn \in PerfRecords :
        LET r == performance[kn[1]][kn[2]]
        IN /\ r.avg_duration = FloatDiv(r.total_duration, r.total_executions)
           /\ r.total_duration = FloatSum(perf_history[kn[1]][kn[2]])
           /\ FloatLeq(FloatOf(r.min_duration), r.avg_duration)
           /\ FloatLeq(r.avg_duration, FloatOf(r.max_duration))

\* the action whose requests run the handlers of a kind
DispatchAction(kind) ==
    CASE kind = "command" -> "dispatchCommand"
      [] kind = "event" -> "dispatchEvent"
      [] OTHER -> "dispatchTask"

RECURSIVE SumOver(_, _)
SumOver(f, set) ==
    IF set = {} THEN 0
    ELSE LET x == CHOOSE y \in set : TRUE IN f[x] + SumOver(f, set \ {x})

\* wrapped handler invocations of (kind, name) that are over, and those of
\* them that raised
Completed(kind, name) ==
    SumOver([t \in TaskIds |->
                IF tasks[t].action # DispatchAction(kind) \/ tasks[t].cmd # name
                THEN 0
                ELSE IF kind = "event"
                THEN Len(tasks[t].inv) - (IF tasks[t].st = "in_event" THEN 1 ELSE 0)
                ELSE IF tasks[t].st = "done" /\ tasks[t].ch # "none" THEN 1 ELSE 0],
            TaskIds)

CompletedRaised(kind, name) ==
    SumOver([t \in TaskIds |->
                IF tasks[t].action # DispatchAction(kind) \/ tasks[t].cmd # name
                THEN 0
                ELSE IF kind = "event" \/ tasks[t].st = "done"
                THEN tasks[t].nraised ELSE 0],
            TaskIds)

\* invocations of (kind, name) that raised, over or not
Raised(kind, name) ==
    SumOver([t \in TaskIds |->
                IF tasks[t].action = DispatchAction(kind) /\ tasks[t].cmd = name
                THEN tasks[t].nraised ELSE 0],
            TaskIds)

HandlerNames == Commands \cup EventTypes \cup TaskNames

PerfOf(kind, name) ==
    IF name \in DOMAIN performance[kind] THEN performance[kind][name]
    ELSE NewPerf

\* C11: every invocation of a registered handler that is over, of any kind,
\* has added exactly one sample to the record of its name within its kind:
\* total_executions counts the invocations and failed_executions those that
\* raised.
C11_OneSamplePerInvocation ==
    \A kind \in PerfKinds, name \in HandlerNames :
        /\ PerfOf(kind, name).total_executions = Completed(kind, name)
        /\ PerfOf(kind, name).failed_executions = CompletedRaised(kind, name)

ErrorsOf(kind, name) ==
    {i \in 1..Len(errors) : errors[i].type = kind /\ errors[i].source = name}

\* C12: every handler invocation that raised, of any kind, has exactly one
\* record in the error log, with its kind as type and its name as source, and
\* has added exactly 1 to statistics['errors_occurred'].
C12_RecordedOnce ==
    /\ \A kind \in PerfKinds, name \in HandlerNames :
            Cardinality(ErrorsOf(kind, name)) = Raised(kind, name)
    /\ statistics.errors_occurred = Len(errors)
    /\ Len(errors) =
            SumOver([t \in TaskIds |-> tasks[t].nraised], TaskIds)

\* a task handler and both handlers of an event raised
C12_Witness ==
    /\ Cardinality(ErrorsOf("task", "tk")) = 1
    /\ Cardinality(ErrorsOf("event", "message")) = 2
    /\ statistics.errors_occurred = 3

\* C17: when a dispatchEvent request is over, dispatch_event has called every
\* handler of the type's list once, in registration order, whether or not
\* some of them raised, and has returned normally: the request is answered
\* with success.
C17_EveryHandlerInOrder ==
    [][\A t \in TaskIds :
        (tasks[t].action = "dispatchEvent" /\ tasks[t].st # "done"
            /\ tasks'[t].st = "done")
        => /\ Len(tasks'[t].inv) = event_handlers[tasks[t].cmd]
           /\ \A i \in 1..Len(tasks'[t].inv) : tasks'[t].inv[i] = i
           /\ tasks'[t].rh = "returned"
           /\ stdout' = Append(stdout, ResponseMsg(t, "success"))]_vars

\* two handlers are registered, both were called in order and both raised
C17_Witness ==
    \E t \in TaskIds :
        /\ tasks[t].action = "dispatchEvent"
        /\ tasks[t].st = "done"
        /\ tasks[t].inv = <<1, 2>>
        /\ tasks[t].nraised = 2

\* C18: when a dispatchTask request is over, dispatch_task has returned
\* normally and the request is answered with success; without stored handler
\* nothing changed, and a handler that raised left exactly its error record.
C18_TaskNeverPropagates ==
    [][\A t \in TaskIds :
        (tasks[t].action = "dispatchTask" /\ tasks[t].st # "done"
            /\ tasks'[t].st = "done")
        => /\ tasks'[t].rh = "returned"
           /\ stdout' = Append(stdout, ResponseMsg(t, "success"))
           /\ scheduled_tasks[tasks[t].cmd] # "stored" =>
                UNCHANGED <<statistics, performance, errors, scheduled_tasks,
                            concurrent_operations, max_concurrent_operations>>
           /\ tasks'[t].ch = "raised" =>
                errors' = Append(errors, [type |-> "task",
                                          source |-> tasks[t].cmd,
                                          message |-> tasks'[t].err])]_vars

\* a task handler raised, the error was recorded and the request was answered
\* with success
C18_Witness ==
    \E t \in TaskIds :
        /\ tasks[t].action = "dispatchTask" /\ tasks[t].st = "done"
        /\ tasks[t].ch = "raised" /\ tasks[t].rh = "returned"
        /\ \E i \in Responses(t) : stdout[i] = ResponseMsg(t, "success")
        /\ Len(errors) = 1

\* C19: a request with an id whose action has no handler is answered, by the
\* step that handles it, with one error response carrying its id and the
\* unknown action error naming the action; no handler runs and no request
\* ever gets a second response.
C19_UnknownActionAnswered ==
    /\ [](\A t \in TaskIds :
            tasks[t].action \notin RegisteredActions =>
                /\ Cardinality(Responses(t)) <= 1
                /\ tasks[t].rh = "none" /\ tasks[t].ch = "none")
    /\ [][\A t \in TaskIds :
            (tasks[t].st = "created" /\ tasks[t].id # 0
                /\ tasks[t].action \notin RegisteredActions
                /\ tasks'[t].st = "done")
            => stdout' = Append(stdout,
                    ErrorMsg(tasks[t].id,
                             "Unknown action: " \o tasks[t].action))]_vars

\* a request for an action without handler was answered with the error
C19_Witness ==
    \E t \in TaskIds :
        /\ tasks[t].st = "done"
        /\ tasks[t].action = "noSuchAction"
        /\ Cardinality(Responses(t)) = 1
        /\ \A i \in Responses(t) :
                stdout[i] = ErrorMsg(t, "Unknown action: noSuchAction")

\* C20: once the intake loop has ended at end of input, run_plugin's main
\* loop eventually returns, unload or not.
C20_ExitsAfterEndOfInput ==
    (reader_task = "ended") ~> (main_task = "exited")

\* the first line is not a load message with plugin identity and context
InvalidFirstLine ==
    \/ first_line.raw # "text"
    \/ first_line.json # "object"
    \/ first_line.action # "load"
    \/ ~({"data", "pluginInfo", "pluginInfo.id", "context"}
            \subseteq first_line.fields)

\* C21: when the first line is missing, blank, not JSON, not a message with
\* action load, or lacks the plugin identity or the context, run_plugin ends
\* with exit status 1 in its first run: nothing was written to stdout, the
\* intake loop was never started and no request became a task.
C21_BadHandshakeIsFatal ==
    (InvalidFirstLine /\ main_task # "init") =>
        /\ main_task = "exit1"
        /\ stdout = <<>>
        /\ reader_task = "none" /\ ~running
        /\ \A t \in TaskIds : tasks[t] = NoTask

\* run_plugin has exited on an object whose action is not load
C21_Witness ==
    /\ main_task = "exit1"
    /\ first_line.json = "object" /\ first_line.action = "enable"

\* C22: the load message gets one response, written once on_load is over, and
\* until it is written no request of the host has reached its handler.
C22_LoadAnsweredFirst ==
    /\ Cardinality(Responses(LoadId)) <= 1
    /\ main_task = "polling" => Responses(LoadId) # {}
    /\ main_task = "on_load" => Responses(LoadId) = {}
    /\ (\E t \in TaskIds : tasks[t].st \notin {"unused", "created"})
            => Responses(LoadId) # {}

\* the operations on sys.stdout between a write and the flush after it
Unflushed(i) ==
    {j \in (i + 1)..Len(stdout_ops) :
        \A k \in (i + 1)..j : ~(stdout_ops[k].op = "flush"
                                 /\ stdout_ops[k].who = stdout_ops[i].who)}

\* C23: whenever another task can run, every line written has been flushed,
\* and between the write of a message and its flush there is no operation
\* of another message: the host receives the messages as whole lines, in the
\* order of their writes.
C23_WholeLines ==
    /\ stdout_buffer = <<>>
    /\ \A i \in 1..Len(stdout_ops) :
            stdout_ops[i].op = "write" =>
                /\ i < Len(stdout_ops)
                /\ stdout_ops[i + 1] = [stdout_ops[i] EXCEPT !.op = "flush"]
                /\ Unflushed(i) = {}
    /\ Len(stdout) =
            Cardinality({i \in 1..Len(stdout_ops) : stdout_ops[i].op = "write"})
    /\ \A n \in 1..Len(stdout) :
            \E s \in SenderIds, k \in 1..MaxSends : stdout[n] = SenderMsg(s, k)

\* two tasks have sent all their messages, the second one's first message
\* between the first one's two
C23_Witness ==
    /\ Len(stdout) = 3
    /\ stdout[1] = SenderMsg(1, 1)
    /\ stdout[2] = SenderMsg(2, 1)
    /\ stdout[3] = SenderMsg(1, 2)

\* the _send calls whose message did not serialize: their dumps is the last
\* operation of the call
Dropped ==
    {i \in 1..Len(stdout_ops) :
        /\ stdout_ops[i].op = "dumps"
        /\ i = Len(stdout_ops) \/ stdout_ops[i + 1].op # "write"}

\* C30: a _send whose message does not serialize returns normally and
\* leaves stdout and its buffer as they were; whatever was dropped before, a
\* message that serializes is appended to stdout as one line.
C30_DroppedWithoutTrace ==
    [][\A s \in SenderIds :
        senders'[s] # senders[s] =>
            /\ senders'[s].pc = "idle" /\ senders'[s].last = "returned"
            /\ stdout_buffer' = stdout_buffer
            /\ stdout' = IF senders'[s].ser
                         THEN Append(stdout, senders'[s].msg)
                         ELSE stdout]_vars

\* a message was dropped and a later one, of the same task, was written
C30_Witness ==
    \E i \in Dropped :
        \E j \in (i + 1)..Len(stdout_ops) :
            /\ stdout_ops[j].op = "write"
            /\ stdout_ops[j].who = stdout_ops[i].who
            /\ \E n \in 1..Len(stdout) : stdout[n].id = stdout_ops[j].id

\* C26: a response read for a call that is awaiting it settles that call's
\* future and nothing else: with the response's error when it has one, with
\* its data otherwise; no other future, call or registry entry changes, and
\* the call then fails with that error or returns that data.
C26_ResponseSettlesItsCall ==
    /\ [][\A m \in ResponseLines :
            (ReadResponse(m) /\ m.id \in pending_requests
                /\ futures[m.id].st = "pending")
            => /\ futures' = [futures EXCEPT ![m.id] =
                        IF m.error # ""
                        THEN [st |-> "exception", val |-> m.error]
                        ELSE [st |-> "result", val |-> m.data]]
               /\ pending_requests' = pending_requests \ {m.id}
               /\ calls' = calls]_vars
    /\ [](\A c \in CallIds :
            (calls[c].st = "done" /\ futures[c].st \in {"result", "exception"})
            => calls[c].outcome =
                    [kind |-> IF futures[c].st = "exception"
                              THEN "error" ELSE "ok",
                     val |-> futures[c].val])

\* call 1 has failed with the error of its response while call 2, made
\* before that response was read, is still pending
C26_Witness ==
    /\ calls[1].outcome = [kind |-> "error", val |-> "e1"]
    /\ calls[2].st = "awaiting"
    /\ futures[2].st = "pending"
    /\ 2 \in pending_requests

\* C24: a request handler that was suspended in its work when stop() ran is
\* never cancelled: it runs to its end and its response is written.
C24_RunningHandlersComplete ==
    \A t \in running_at_stop : tasks[t].st # "cancelled"

\* C25: every snapshot get_detailed_info has returned still shows the
\* statistics, the performance records, the errors and the concurrency
\* counters of the moment it was taken, whatever was recorded since.
C25_SnapshotIsCopy ==
    \A i \in 1..Len(snapshots) :
        LET snap == snapshots[i] IN
        /\ Shown(snap.errors, LastOf(errors, SnapshotErrors)) = snap.errors.val
        /\ Shown(snap.statistics, statistics) = snap.statistics.val
        /\ Shown(snap.performance, performance) = snap.performance.val
        /\ Shown(snap.threadSafety,
                 <<concurrent_operations, max_concurrent_operations>>)
                = snap.threadSafety.val

\* the chat an event came from, as the data of the callApi request that
\* sends a message there
OriginatingChat(event) ==
    IF event.message_type = "group"
    THEN "send_group_msg:group_id=" \o event.group_id
    ELSE "send_private_msg:user_id=" \o event.user_id

\* C27: the failure notice of a command is a message to the chat the command
\* came from: to the event's group for a group event, to the event's user for
\* a private one.
C27_NoticeToOriginatingChat ==
    [][\A t \in TaskIds :
        (tasks[t].st # "notice" /\ tasks'[t].st = "notice")
        => stdout' = Append(stdout,
                RequestMsgData(tasks'[t].call, "callApi",
                               OriginatingChat(tasks[t].event)))]_vars

\* the request messages of call c written so far
Requests(c) ==
    {i \in 1..Len(stdout) : stdout[i].type = "request" /\ stdout[i].id = c}

\* the terminal outcomes of the request lifecycle: Resolved, Failed, TimedOut
TerminalOutcomes == {"ok", "error", "timeout"}

\* C28: each send_request call emits exactly one request message and goes
\* Created -> Pending -> one terminal outcome: once it is pending its one
\* request message is on stdout and no further one is ever written, a
\* pending call changes only by ending, and an ended call, with its
\* outcome, is never changed again by a response or a timer.
C28_OneRequestOneOutcome ==
    [][\A c \in CallIds :
        /\ calls'[c].st \in {"awaiting", "done"}
                => Cardinality(Requests(c)') = 1
        /\ calls[c].st = "awaiting" /\ calls'[c] # calls[c]
                => /\ calls'[c].st = "done"
                   /\ calls'[c].outcome.kind \in TerminalOutcomes \cup {"cancelled"}
        /\ calls[c].st = "done" => calls'[c] = calls[c]]_vars

\* a step in which the intake loop skipped or logged a line
SkipsLine == intake_log' # intake_log /\ ~intake_log'.dispatched

\* C29: a blank line, a line that is not JSON, an object of unknown type
\* and JSON that is no object leave the intake loop running: the step that
\* takes such a line changes neither pending_requests nor any call, task or
\* output, the loop is at its next readline or in the short sleep before
\* it, and the sleep ends at the next readline unless the plugin is stopped.
C29_BadLinesSkipped ==
    /\ [][SkipsLine =>
            /\ reader_task' \in {"reading", "sleeping"}
            /\ running' = running
            /\ pending_requests' = pending_requests
            /\ UNCHANGED <<futures, calls, tasks, stdout>>]_vars
    /\ (reader_task = "sleeping")
            ~> (reader_task \in {"reading", "cancelling", "cancelled"})

\* a response was taken and its call resumed after a line that is no object
C29_Witness ==
    /\ intake_log.skipped = "non_object"
    /\ intake_log.dispatched
    /\ \E c \in CallIds : calls[c].outcome.kind = "ok"

\* the _handle_event tasks that end in this step
EventHandled(i) ==
    /\ i \in 1..Len(event_log.msgs)
    /\ event_log.msgs[i].st = "created"
    /\ event_log'.msgs[i].st = "done"

\* C31: an event message causes every handler registered for its action to
\* be invoked: a second on_event for the action does not remove the first.
C31_EveryEventHandlerInvoked ==
    [][\A i \in 1..MaxEvents :
        EventHandled(i)
            => event_log'.msgs[i].called = event_log.registered]_vars

\* C32: an event message never makes the router write anything: the step
\* that takes the line and the step that runs its handler - returning,
\* raising or absent - leave stdout unchanged, and the handler's step
\* changes neither pending_requests nor the futures nor the intake loop.
C32_EventsAreSilent ==
    [][/\ event_log'.msgs # event_log.msgs => stdout' = stdout
       /\ \A i \in 1..MaxEvents :
            EventHandled(i)
                => /\ pending_requests' = pending_requests
                   /\ futures' = futures
                   /\ reader_task' = reader_task
                   /\ running' = running]_vars

\* an event's handler raised while a call was pending and the loop reading,
\* and another event found no handler
C32_Witness ==
    /\ \E i, j \in 1..Len(event_log.msgs) :
            /\ event_log.msgs[i].handler = "raised"
            /\ event_log.msgs[j].handler = "absent"
    /\ pending_requests # {}
    /\ reader_task = "reading"

\* the failure notice of request t ends in this step
NoticeEnds(t) == tasks[t].st = "notice" /\ tasks'[t].st = "done"

\* C33: when a command's failure notice ends - delivered, answered with an
\* error or timed out - no error record is added and errors_occurred and the
\* other statistics stay as they are, and the invocation is recorded the
\* same way in each case: one failed sample, the concurrency counter
\* released, the request answered with success.
C33_NoticeFailureSwallowed ==
    [][\A t \in TaskIds :
        NoticeEnds(t)
            => /\ errors' = errors
               /\ statistics' = statistics
               /\ \E d \in Durations :
                    performance' = command_wrapper_exit(
                        PB, tasks[t].cmd, d, FALSE).performance
               /\ concurrent_operations' = concurrent_operations - 1
               /\ stdout' = Append(stdout, ResponseMsg(tasks[t].id, "success"))
               /\ tasks'[t].ch = "raised"]_vars

\* one command's notice was answered with an error, another's timed out,
\* and both requests are over
C33_Witness ==
    \E t, u \in TaskIds, c, k \in CallIds :
        /\ tasks[t].st = "done" /\ tasks[t].ch = "raised"
        /\ tasks[u].st = "done" /\ tasks[u].ch = "raised"
        /\ calls[c].owner = t /\ calls[c].outcome.kind = "error"
        /\ calls[k].owner = u /\ calls[k].outcome.kind = "timeout"

\* C34: _max_concurrent_operations is never below _concurrent_operations,
\* never decreases, and always equals the largest number of command and
\* event handler invocations that were in progress at the same time so far.
C34_HighWaterMark ==
    [][/\ max_concurrent_operations' >= concurrent_operations'
       /\ max_concurrent_operations' >= max_concurrent_operations
       /\ max_concurrent_operations' = peak_operations'
       /\ peak_operations' >= Cardinality(InProgress')]_vars

\* two invocations overlapped and are over: the counter is back at 0 and
\* the mark stays at 2
C34_Witness ==
    /\ max_concurrent_operations = 2
    /\ concurrent_operations = 0
    /\ \E t, u \in TaskIds : t # u /\ tasks[t].st = "done" /\ tasks[u].st = "done"

\* the registerSchedule calls that end in this step, and how
ScheduleEnds(c, kinds) ==
    /\ calls[c].st = "awaiting" /\ calls[c].action = "registerSchedule"
    /\ calls'[c].st = "done" /\ calls'[c].outcome.kind \in kinds

\* the dispatchTask requests handled in this step
TaskDispatched(t) ==
    /\ tasks[t].st = "created" /\ tasks[t].action = "dispatchTask"
    /\ tasks'[t].st # "created"

C36_RequestWithoutIdIgnored ==
    [][\A t \in TaskIds :
        (tasks[t].st = "created" /\ tasks[t].id = 0 /\ tasks'[t] # tasks[t])
            => /\ tasks'[t].st = "done"
               /\ tasks'[t].rh = "none" /\ tasks'[t].ch = "none"
               /\ stdout' = stdout
               /\ calls' = calls
               /\ pending_requests' = pending_requests
               /\ UNCHANGED pbVars]_vars

\* a request without id for an action that has a handler is over, and
\* nothing was written
C36_Witness ==
    /\ \E t \in TaskIds :
            /\ tasks[t].st = "done" /\ tasks[t].id = 0
            /\ tasks[t].action = "pluginAction"
            /\ tasks[t].action \in RegisteredActions
    /\ stdout = <<>>

\* the actions run_plugin answers itself
CoreActions ==
    {"dispatchCommand", "dispatchTask", "dispatchEvent",
     "enable", "disable", "unload", "getInfo"}

\* C37: the handlers for dispatchCommand, dispatchTask, dispatchEvent,
\* enable, disable, unload and getInfo are all registered before the intake
\* loop can dispatch anything, so after a valid handshake none of these
\* actions is ever answered with an unknown-action error.
C37_CoreHandlersRegisteredFirst ==
    /\ (reader_task # "none" \/ \E t \in TaskIds : tasks[t].st # "unused")
            => CoreActions \subseteq ipc_event_handlers.request
    /\ \A i \in 1..Len(stdout), a \in CoreActions :
            stdout[i].error # UnknownAction(a)

\* a getInfo request and an unload request read while on_load was still
\* suspended were both answered by their handlers
C37_Witness ==
    /\ main_task = "on_load"
    /\ \E t, u \in TaskIds :
            /\ tasks[t].action = "getInfo" /\ tasks[t].st = "done"
            /\ tasks[u].action = "unload" /\ tasks[u].st = "done"
            /\ \E i, j \in 1..Len(stdout) :
                    /\ stdout[i] = ResponseMsg(tasks[t].id, "info")
                    /\ stdout[j] = ResponseMsg(tasks[u].id, "success")

\* C38: a dispatchEvent or dispatchTask request that is over was answered
\* with one success response and nothing else, whether handlers raised, no
\* handler was registered for the event type, or the task was unknown or
\* failed.
C38_DispatchAnsweredWithSuccess ==
    \A t \in TaskIds :
        (tasks[t].action \in {"dispatchEvent", "dispatchTask"}
            /\ tasks[t].st = "done" /\ tasks[t].id # 0)
        => /\ Cardinality(Responses(tasks[t].id)) = 1
           /\ \A i \in Responses(tasks[t].id) :
                stdout[i] = ResponseMsg(tasks[t].id, "success")

\* an event of a type without handlers and a task without stored handler
\* were both answered with success
C38_Witness ==
    \E t, u \in TaskIds :
        /\ tasks[t].action = "dispatchEvent" /\ tasks[t].st = "done"
        /\ event_handlers[tasks[t].cmd] = 0
        /\ tasks[u].action = "dispatchTask" /\ tasks[u].st = "done"
        /\ tasks[u].ch = "none"
        /\ \E i, j \in 1..Len(stdout) :
                /\ stdout[i] = ResponseMsg(tasks[t].id, "success")
                /\ stdout[j] = ResponseMsg(tasks[u].id, "success")

\* event handler invocations so far: the handlers every dispatchEvent request
\* has called, over or still in progress
EventInvocations ==
    SumOver([t \in TaskIds |->
                IF tasks[t].action = "dispatchEvent"
                THEN Len(tasks[t].inv) ELSE 0], TaskIds)

\* C39: events_handled counts the event handler invocations, raising ones
\* included; a dispatch_event that runs to its end in one step over a type
\* with k handlers adds exactly k to it, nothing when k = 0.
C39_EventsHandledPerHandler ==
    /\ [](statistics.events_handled = EventInvocations)
    /\ [][\A t \in TaskIds :
            (tasks[t].action = "dispatchEvent" /\ tasks[t].st = "created"
                /\ tasks'[t].st = "done")
            => statistics'.events_handled
                = statistics.events_handled + event_handlers[tasks[t].cmd]]_vars

\* two handlers were called by one dispatch and both raised, and the counter
\* stands at the number of invocations
C39_Witness ==
    \E t \in TaskIds :
        /\ tasks[t].action = "dispatchEvent" /\ tasks[t].st = "done"
        /\ Len(tasks[t].inv) = 2 /\ tasks[t].nraised = 2
        /\ statistics.events_handled >= 2
        /\ statistics.events_handled = EventInvocations

\* C40: the step that ends an unload request emits its one response, the
\* success response, with the intake stopped (running cleared, the reader
\* task reading no more) and before run_plugin has returned.
C40_UnloadAnsweredBeforeExit ==
    [][\A t \in TaskIds :
        (tasks[t].action = "unload" /\ tasks[t].st # "done"
            /\ tasks'[t].st = "done")
        => /\ stdout' = Append(stdout, ResponseMsg(tasks[t].id, "success"))
           /\ Cardinality({i \in 1..Len(stdout') :
                    stdout'[i].type = "response"
                        /\ stdout'[i].id = tasks[t].id}) = 1
           /\ ~running'
           /\ reader_task' \in {"cancelling", "cancelled", "ended"}
           /\ main_task' # "exited"]_vars

============================================================================
